---- MODULE Spec2Model ----
(***************************************************************************)
(* TwoD grids (include/grid.h): dense, fixed, mapped and tiled storage,    *)
(* views over them and the whole-grid operations of GridBase.              *)
(*                                                                         *)
(* One grid object G lives in the state.  Its storage strategy is `kind`;  *)
(* a dense strategy keeps its cells in data_, FixedTiledGrid keeps them in *)
(* tiles_.  Every operation of the client is one action; `last` holds the  *)
(* operation that has just returned (with its arguments and result) until  *)
(* the client drops it (Return), `nops` counts the operations so far and   *)
(* `budget` is the number of operations the client program makes.  `heap`  *)
(* holds the buffers behind a Grid or MappedGrid and the buffer that the   *)
(* pointer data_ of G addresses.  `origin_` is the origin of the index     *)
(* space: (0, 0) for a grid, the constructor's origin for a Bounds.        *)
(***************************************************************************)
EXTENDS Integers, Sequences, FiniteSets, TLC

VARIABLES kind, tparams, origin_, extents_, data_, tiles_, default_value_, heap, touched, last, nops, budget

vars == <<kind, tparams, origin_, extents_, data_, tiles_, default_value_, heap, touched, last, nops, budget>>

(***************************************************************************)
(* Bounds of the model.                                                    *)
(***************************************************************************)
\* cell values are 0..MaxVal
MaxVal == 1
\* operations the client of a tiled grid or of a dense grid makes
MaxOps == 2
\* operations the client of a grid and its views makes
MaxViewOps == 1
\* a dense grid has extents 0..MaxExt on each axis
MaxExt == 2
\* a view has extents 1..MaxViewExt on each axis
MaxViewExt == 2
\* a FixedTiledGrid instantiation has sides 1..MaxSide
MaxSide == 3
\* the memory a caller gives to a MappedGrid holds MaxCells cells
MaxCells == 3

Val == 0..MaxVal

(***************************************************************************)
(* Coordinates<int> (twod/coordinates.h): a pair {x, y} with componentwise *)
(* arithmetic and AND-reduced comparisons.                                 *)
(***************************************************************************)
Pt(px, py) == [x |-> px, y |-> py]

Zero == Pt(0, 0)

Plus(a, b) == Pt(a.x + b.x, a.y + b.y)

Minus(a, b) == Pt(a.x - b.x, a.y - b.y)

all_ge(a, b) == a.x >= b.x /\ a.y >= b.y

all_lt(a, b) == a.x < b.x /\ a.y < b.y

area(e) == e.x * e.y

\* int / int of C++: the quotient truncated toward zero
IntDiv(a, b) ==
  IF a >= 0 THEN a \div b ELSE -((-a) \div b)

(***************************************************************************)
(* Storage.  mem = [data, tiles, temp]: the cells of a dense G, the tiles  *)
(* of a tiled G, and the cells of a temporary operand of the running       *)
(* operation.  A cell reference (CellT&) names one cell of mem, or the     *)
(* grid's default_value_.                                                  *)
(***************************************************************************)
Mem == [data |-> data_, tiles |-> tiles_, temp |-> <<>>]

MemWithTemp(cells) == [data |-> data_, tiles |-> tiles_, temp |-> cells]

DataRef(i) == [in |-> "data", tile |-> 0, idx |-> i]

TileRef(t, i) == [in |-> "tile", tile |-> t, idx |-> i]

TempRef(i) == [in |-> "temp", tile |-> 0, idx |-> i]

DefaultRef == [in |-> "default", tile |-> 0, idx |-> 0]

Load(mem, ref) ==
  CASE ref.in = "data" -> mem.data[ref.idx]
    [] ref.in = "tile" -> mem.tiles[ref.tile].data[1][ref.idx]
    [] ref.in = "temp" -> mem.temp[ref.idx]
    [] OTHER -> default_value_

Store(mem, ref, v) ==
  CASE ref.in = "data" -> [mem EXCEPT !.data[ref.idx] = v]
    [] ref.in = "tile" -> [mem EXCEPT !.tiles[ref.tile].data[1][ref.idx] = v]
    [] OTHER -> mem

\* std::array<CellT, N>::fill / a buffer of n cells constructed from one value
Cells(n, v) == [i \in 0..(n - 1) |-> v]

(***************************************************************************)
(* The heap.  heap = [at, bufs, gone]: bufs are the buffers obtained from  *)
(* allocator_ (by = "allocator") or supplied by the caller of MappedGrid   *)
(* (by = "caller"), in order; a buffer is [size, freed, by] with freed the *)
(* sizes passed to the deallocate calls made on it.  at is the buffer      *)
(* data_ points at (0: nullptr), gone says that G has been destroyed.  The *)
(* cells behind data_ are the variable data_; after a release they are the *)
(* cells a dangling data_ still addresses.                                 *)
(***************************************************************************)
Buffer(n, by) == [size |-> n, freed |-> <<>>, by |-> by]

NoHeap == [at |-> 0, bufs |-> <<>>, gone |-> FALSE]

\* data_ = allocator_.allocate(n).  The buffers that data_ no longer
\* addresses and that were released once, with their size, leave bufs.
Allocate(h, n) ==
  LET kept == SelectSeq(h.bufs, LAMBDA b : b.freed # <<b.size>>)
  IN  [h EXCEPT !.bufs = Append(kept, Buffer(n, "allocator")), !.at = Len(kept) + 1]

\* allocator_.deallocate(data_, n)
Deallocate(h, n) == [h EXCEPT !.bufs[h.at].freed = Append(@, n)]

\* the heap behind a grid of a storage strategy holding n cells
HeapOf(k, n) ==
  CASE k = "Grid" -> Allocate(NoHeap, n)
    [] k = "MappedGrid" -> [NoHeap EXCEPT !.bufs = <<Buffer(n, "caller")>>, !.at = 1]
    [] OTHER -> NoHeap

(***************************************************************************)
(* GridBase::within                                                        *)
(***************************************************************************)
\* mutant: a within that rejects a point only when both axes are out of range
within_either(ext, pt) == all_ge(pt, Zero) /\ (pt.x < ext.x \/ pt.y < ext.y)

within(ext, pt) == all_ge(pt, Zero) /\ all_lt(pt, ext)

PointsOf(ext) == {Pt(px, py) : px \in 0..(ext.x - 1), py \in 0..(ext.y - 1)}

(***************************************************************************)
(* Dense storage: ContainerStorageBase (FixedGrid) and RawStorageBase      *)
(* (Grid, MappedGrid).                                                     *)
(***************************************************************************)
ContainerStorageBase_toLinearIndex(ext, pt) == (ext.x * pt.y) + pt.x

\* mutant: a linear index that leaves out the row stride
RawStorageBase_toLinearIndex_unstrided(ext, pt) == pt.y + pt.x

RawStorageBase_toLinearIndex(ext, pt) == (ext.x * pt.y) + pt.x

ContainerStorageBase_access_impl(mem, pt) ==
  [mem |-> mem, ref |-> DataRef(ContainerStorageBase_toLinearIndex(extents_, pt))]

RawStorageBase_access_impl(mem, pt) ==
  [mem |-> mem, ref |-> DataRef(RawStorageBase_toLinearIndex(extents_, pt))]

(***************************************************************************)
(* FixedTiledGrid<CellT, Height, Width, TileHeight, TileWidth>.  tparams   *)
(* is the instantiation.  tiles_ is a FixedGrid of Tile, a Tile is         *)
(* [data, origin] with data the empty tuple (a null unique_ptr) or a       *)
(* one-element tuple holding the cells of the owned TileGrid.              *)
(***************************************************************************)
TileRows == IntDiv(tparams.Height, tparams.TileHeight)

TileCols == IntDiv(tparams.Width, tparams.TileWidth)

TileCount == TileRows * TileCols

\* extents of tiles_ (FixedGrid<TileType, TileRows, TileCols>)
TilesExtents == Pt(TileRows, TileCols)

\* extents of a TileGrid (FixedGrid<CellT, TileHeight, TileWidth>)
TileGridExtents == Pt(tparams.TileHeight, tparams.TileWidth)

Tile == [data |-> <<>>, origin |-> Zero]

\* mutant: a constructor that materializes every tile eagerly
FixedTiledGrid_ctor_eager ==
  [t \in 0..(TileCount - 1) |->
     [origin |-> Pt((t % TileRows) * tparams.TileHeight,
                    (t \div TileRows) * tparams.TileWidth),
      data |-> <<Cells(area(TileGridExtents), default_value_)>>]]

FixedTiledGrid_ctor == [t \in 0..(TileCount - 1) |-> Tile]

\* mutant: a const access that materializes the tile it reads
FixedTiledGrid_access_impl_const_allocating(mem, pt) ==
  LET tile_pt == Pt(IntDiv(pt.x, tparams.TileHeight), IntDiv(pt.y, tparams.TileWidth))
      t == ContainerStorageBase_toLinearIndex(TilesExtents, tile_pt)
      made == [origin |-> Pt(tile_pt.x * tparams.TileHeight, tile_pt.y * tparams.TileWidth),
               data |-> <<Cells(area(TileGridExtents), default_value_)>>]
      mem1 == IF mem.tiles[t].data = <<>> THEN [mem EXCEPT !.tiles[t] = made] ELSE mem
  IN  [mem |-> mem1,
       ref |-> TileRef(t, ContainerStorageBase_toLinearIndex(
                            TileGridExtents, Minus(pt, mem1.tiles[t].origin)))]

\* const CellT& access_impl(const Indices&) const
FixedTiledGrid_access_impl_const(mem, pt) ==
  LET tile_pt == Pt(IntDiv(pt.x, tparams.TileHeight), IntDiv(pt.y, tparams.TileWidth))
      t == ContainerStorageBase_toLinearIndex(TilesExtents, tile_pt)
      tile == mem.tiles[t]
  IN  IF tile.data # <<>>
        THEN [mem |-> mem,
              ref |-> TileRef(t, ContainerStorageBase_toLinearIndex(
                                   TileGridExtents, Minus(pt, tile.origin)))]
        ELSE [mem |-> mem, ref |-> DefaultRef]

\* mutant: a materialization that value-initializes the new tile instead of
\* filling it with default_value_
FixedTiledGrid_access_impl_zeroed(mem, pt) ==
  LET tile_pt == Pt(IntDiv(pt.x, tparams.TileHeight), IntDiv(pt.y, tparams.TileWidth))
      t == ContainerStorageBase_toLinearIndex(TilesExtents, tile_pt)
      made == [origin |-> Pt(tile_pt.x * tparams.TileHeight, tile_pt.y * tparams.TileWidth),
               data |-> <<Cells(area(TileGridExtents), 0)>>]
      mem1 == IF mem.tiles[t].data = <<>> THEN [mem EXCEPT !.tiles[t] = made] ELSE mem
  IN  [mem |-> mem1,
       ref |-> TileRef(t, ContainerStorageBase_toLinearIndex(
                            TileGridExtents, Minus(pt, mem1.tiles[t].origin)))]

\* CellT& access_impl(const Indices&)
FixedTiledGrid_access_impl(mem, pt) ==
  LET tile_pt == Pt(IntDiv(pt.x, tparams.TileHeight), IntDiv(pt.y, tparams.TileWidth))
      t == ContainerStorageBase_toLinearIndex(TilesExtents, tile_pt)
      made == [origin |-> Pt(tile_pt.x * tparams.TileHeight, tile_pt.y * tparams.TileWidth),
               data |-> <<Cells(area(TileGridExtents), default_value_)>>]
      mem1 == IF mem.tiles[t].data = <<>> THEN [mem EXCEPT !.tiles[t] = made] ELSE mem
  IN  [mem |-> mem1,
       ref |-> TileRef(t, ContainerStorageBase_toLinearIndex(
                            TileGridExtents, Minus(pt, mem1.tiles[t].origin)))]

\* mutant: a mask that reads tiles_ with rows and columns exchanged
mask_transposed ==
  [tp \in PointsOf(TilesExtents) |->
     tiles_[ContainerStorageBase_toLinearIndex(TilesExtents, Pt(tp.y, tp.x))].data # <<>>]

\* FixedTiledGrid::mask, as the function tile index -> flag
mask == [tp \in PointsOf(TilesExtents) |->
           tiles_[ContainerStorageBase_toLinearIndex(TilesExtents, tp)].data # <<>>]

\* FixedTiledGrid::active
active == Cardinality({t \in DOMAIN tiles_ : tiles_[t].data # <<>>})

(***************************************************************************)
(* GridBase::operator[] : the CRTP dispatch to the strategy's access_impl. *)
(***************************************************************************)
GridBase_subscript(mem, pt) ==
  CASE kind = "FixedTiledGrid" -> FixedTiledGrid_access_impl(mem, pt)
    [] kind = "FixedGrid" -> ContainerStorageBase_access_impl(mem, pt)
    [] OTHER -> RawStorageBase_access_impl(mem, pt)

GridBase_subscript_const(mem, pt) ==
  CASE kind = "FixedTiledGrid" -> FixedTiledGrid_access_impl_const(mem, pt)
    [] kind = "FixedGrid" -> ContainerStorageBase_access_impl(mem, pt)
    [] OTHER -> RawStorageBase_access_impl(mem, pt)

\* the value a const read of G[pt] yields when the storage is mem
ReadIn(mem, pt) ==
  LET a == GridBase_subscript_const(mem, pt) IN Load(a.mem, a.ref)

\* the value a const read of G[pt] yields in the current state
Read(pt) == ReadIn(Mem, pt)

(***************************************************************************)
(* Views.  A view is [form, origin_, extents_]: form names the class       *)
(* (View, FixedExtentsView, FixedOriginExtentsView), whose iterator itr_   *)
(* holds the parent pointer, the origin and the extents.                   *)
(***************************************************************************)
Forms == {"View", "FixedExtentsView", "FixedOriginExtentsView"}

\* GridBase::view(origin, extents), view<Height, Width>(origin),
\* view<OriginX, OriginY, Height, Width>()
GridBase_view(form, origin, extents) ==
  [form |-> form, origin_ |-> origin, extents_ |-> extents]

\* the parent point that itr_[pt] addresses
\* mutant: a view subscript that forgets the origin of the view
ViewIterator_subscript_unshifted(view, pt) == pt

ViewIterator_subscript(view, pt) == Plus(view.origin_, pt)

FixedExtentsViewIterator_subscript(view, pt) == Plus(view.origin_, pt)

FixedOriginExtentsViewIterator_subscript(view, pt) == Plus(view.origin_, pt)

\* View::access_impl, FixedExtentsView::access_impl,
\* FixedOriginExtentsView::access_impl : return itr_[pt]
View_access_impl(view, pt) ==
  CASE view.form = "View" -> ViewIterator_subscript(view, pt)
    [] view.form = "FixedExtentsView" -> FixedExtentsViewIterator_subscript(view, pt)
    [] OTHER -> FixedOriginExtentsViewIterator_subscript(view, pt)

\* ViewIteratorBase::operator++
ViewIteratorBase_increment(pt, ext) ==
  IF pt.x + 1 = ext.x THEN Pt(0, pt.y + 1) ELSE Pt(pt.x + 1, pt.y)

\* the view-relative points an iterator visits from pt until it compares
\* equal to end() (pt_.y == extents.y), appended to visited
RECURSIVE ViewIterate(_, _, _)
ViewIterate(pt, ext, visited) ==
  IF pt.y = ext.y
    THEN visited
    ELSE ViewIterate(ViewIteratorBase_increment(pt, ext), ext, Append(visited, pt))

(***************************************************************************)
(* Iteration.  A range is the sequence of positions begin() .. end() of a  *)
(* grid or view.  A position of a dense grid is a pointer to a cell, a     *)
(* position of a view is a point of the parent, dereferenced through the   *)
(* parent's operator[].                                                    *)
(***************************************************************************)
RefPos(r) == [as |-> "ref", pt |-> Zero, ref |-> r]

PtPos(p) == [as |-> "pt", pt |-> p, ref |-> DefaultRef]

\* View::begin_impl / end_impl (and the fixed forms)
View_range(view) ==
  LET qs == ViewIterate(Zero, view.extents_, <<>>)
  IN  [i \in 1..Len(qs) |-> PtPos(View_access_impl(view, qs[i]))]

\* RawStorageBase::begin_impl / end_impl : data_ .. data_ + extents().area()
RawStorageBase_range == [i \in 1..area(extents_) |-> RefPos(DataRef(i - 1))]

\* ContainerStorageBase::begin_impl / end_impl : data_.begin() .. data_.end()
ContainerStorageBase_range == [i \in 1..area(extents_) |-> RefPos(DataRef(i - 1))]

\* FixedTiledGrid::begin_impl / end_impl : view<0, 0, Height, Width>()
FixedTiledGrid_range ==
  View_range(GridBase_view("FixedOriginExtentsView", Zero, Pt(tparams.Height, tparams.Width)))

\* GridBase::begin / end of G
GridBase_range ==
  CASE kind = "FixedTiledGrid" -> FixedTiledGrid_range
    [] kind = "FixedGrid" -> ContainerStorageBase_range
    [] OTHER -> RawStorageBase_range

\* begin() .. end() of a temporary FixedGrid of n cells
Temp_range(n) == [i \in 1..n |-> RefPos(TempRef(i - 1))]

\* ViewIteratorBase::operator* of an iterator over a non-const parent
Deref(mem, pos) ==
  IF pos.as = "ref" THEN [mem |-> mem, ref |-> pos.ref] ELSE GridBase_subscript(mem, pos.pt)

\* ViewIteratorBase::operator* of an iterator over a const parent
Deref_const(mem, pos) ==
  IF pos.as = "ref" THEN [mem |-> mem, ref |-> pos.ref] ELSE GridBase_subscript_const(mem, pos.pt)

\* the parent points a range dereferences
PtsOf(rng) == {rng[i].pt : i \in {j \in DOMAIN rng : rng[j].as = "pt"}}

(***************************************************************************)
(* Whole-grid operations of GridBase.                                      *)
(***************************************************************************)
\* fill: for (auto& c : *derived()) c = value;
RECURSIVE FillLoop(_, _, _, _)
FillLoop(mem, rng, value, i) ==
  IF i > Len(rng)
    THEN mem
    ELSE LET c == Deref(mem, rng[i])
         IN  FillLoop(Store(c.mem, c.ref, value), rng, value, i + 1)

\* mutant: a fill that releases every tile when the value is the default
GridBase_fill_releasing(mem, rng, value) ==
  IF kind = "FixedTiledGrid" /\ value = default_value_
    THEN [mem EXCEPT !.tiles = [t \in DOMAIN mem.tiles |-> Tile]]
    ELSE FillLoop(mem, rng, value, 1)

\* mutant: a fill whose loop stops one cell short of end()
GridBase_fill_short(mem, rng, value) ==
  FillLoop(mem, SubSeq(rng, 1, Len(rng) - 1), value, 1)

\* mutant: a fill whose loop body is c += value
RECURSIVE FillLoop_adding(_, _, _, _)
FillLoop_adding(mem, rng, value, i) ==
  IF i > Len(rng)
    THEN mem
    ELSE LET c == Deref(mem, rng[i])
         IN  FillLoop_adding(Store(c.mem, c.ref, (Load(c.mem, c.ref) + value) % (MaxVal + 1)),
                             rng, value, i + 1)

GridBase_fill_adding(mem, rng, value) == FillLoop_adding(mem, rng, value, 1)

\* mutant: a fill that leaves alone the cells that already read value
RECURSIVE FillLoop_skipping(_, _, _, _)
FillLoop_skipping(mem, rng, value, i) ==
  IF i > Len(rng)
    THEN mem
    ELSE LET r == Deref_const(mem, rng[i])
             c == Deref(mem, rng[i])
         IN  IF Load(r.mem, r.ref) = value
               THEN FillLoop_skipping(mem, rng, value, i + 1)
               ELSE FillLoop_skipping(Store(c.mem, c.ref, value), rng, value, i + 1)

GridBase_fill_skipping(mem, rng, value) == FillLoop_skipping(mem, rng, value, 1)

GridBase_fill(mem, rng, value) == FillLoop(mem, rng, value, 1)

\* operator=: for (other_itr = other.begin(); other_itr != other.end();
\*                 ++other_itr, ++this_itr) *this_itr = *other_itr;
RECURSIVE AssignLoop(_, _, _, _)
AssignLoop(mem, this_rng, other_rng, i) ==
  IF i > Len(other_rng)
    THEN mem
    ELSE LET o == Deref_const(mem, other_rng[i])
             v == Load(o.mem, o.ref)
             c == Deref(o.mem, this_rng[i])
         IN  AssignLoop(Store(c.mem, c.ref, v), this_rng, other_rng, i + 1)

\* mutant: an assignment that copies from *this into other
GridBase_assign_swapped(mem, this_rng, other_rng) ==
  AssignLoop(mem, other_rng, this_rng, 1)

GridBase_assign(mem, this_rng, other_rng) == AssignLoop(mem, this_rng, other_rng, 1)

\* a loop that reads every cell: for (const auto& v : g) use(v);
\* mut says whether g's iterator is the mutable one
RECURSIVE ReadLoop(_, _, _, _, _)
ReadLoop(mem, rng, mut, i, seen) ==
  IF i > Len(rng)
    THEN [mem |-> mem, seen |-> seen]
    ELSE LET c == IF mut THEN Deref(mem, rng[i]) ELSE Deref_const(mem, rng[i])
         IN  ReadLoop(c.mem, rng, mut, i + 1, Append(seen, Load(c.mem, c.ref)))

\* operator!=: for (other_itr = other.begin(); other_itr != other.end();
\*                  ++other_itr, ++this_itr) if (*this_itr != *other_itr) return true;
RECURSIVE NeLoop(_, _, _, _)
NeLoop(mem, this_rng, other_rng, i) ==
  IF i > Len(other_rng)
    THEN FALSE
    ELSE LET t == Deref_const(mem, this_rng[i])
             o == Deref_const(mem, other_rng[i])
         IN  IF Load(t.mem, t.ref) # Load(o.mem, o.ref)
               THEN TRUE
               ELSE NeLoop(mem, this_rng, other_rng, i + 1)

GridBase_ne(mem, this_rng, other_rng) == NeLoop(mem, this_rng, other_rng, 1)

\* operator==: not this->operator!=(other)
GridBase_eq(mem, this_rng, other_rng) == ~GridBase_ne(mem, this_rng, other_rng)

(***************************************************************************)
(* Instantiations and inputs of the tiled grid.                            *)
(***************************************************************************)
\* a small instantiation with unequal sides and unequal tile sides
SmallTiled == [Height |-> 4, Width |-> 2, TileHeight |-> 2, TileWidth |-> 1]

\* FixedTiledGrid<int, 20, 20, 5, 5> of TEST(FixedTiledGrid, Assign)
TestTiled == [Height |-> 20, Width |-> 20, TileHeight |-> 5, TileWidth |-> 5]

NoTiled == [Height |-> 0, Width |-> 0, TileHeight |-> 1, TileWidth |-> 1]

\* the points the client addresses
InPts ==
  IF tparams = TestTiled THEN {Pt(5, 5), Pt(18, 19), Pt(0, 0)} ELSE PointsOf(extents_)

\* the values the client writes
InVals ==
  IF tparams = TestTiled THEN {5, 6, 9} ELSE Val

\* the views the client takes of G
InOrigins ==
  IF tparams = TestTiled THEN {Pt(1, 1)} ELSE PointsOf(extents_)

ViewExts == {Pt(ex, ey) : ex \in 1..MaxViewExt, ey \in 1..MaxViewExt}

Inside(origin, ext) == all_ge(origin, Zero) /\ all_ge(extents_, Plus(origin, ext))

InViews(forms) ==
  {GridBase_view(t[1], t[2], t[3]) :
     t \in {u \in forms \X InOrigins \X ViewExts : Inside(u[2], u[3])}}

\* a view of another class than `view`, as the source of an assignment
\* between two views (the copy assignment of one view class is deleted)
OtherForm(form) ==
  CASE form = "View" -> "FixedExtentsView"
    [] form = "FixedExtentsView" -> "FixedOriginExtentsView"
    [] OTHER -> "View"

\* cells of a temporary or of caller memory: k, k + 1, ... modulo MaxVal + 1
Ramp(n, k) == [i \in 0..(n - 1) |-> (i + k) % (MaxVal + 1)]

\* the tile index the claims give for a point
TileIndexOf(p) == Pt(p.x \div tparams.TileHeight, p.y \div tparams.TileWidth)

\* the client of the 20 x 20 instantiation is that of the tests Assign and
\* AssignGrid: indexed accesses and 2 x 2 views, no loop over all 400 cells
LoopsRun == tparams # TestTiled

Idle == [op |-> "none"]

CanCall == last = Idle /\ nops < budget

(***************************************************************************)
(* Construction.                                                           *)
(***************************************************************************)
InitTiled ==
  /\ kind = "FixedTiledGrid"
  /\ tparams \in {SmallTiled, TestTiled}
  /\ extents_ = Pt(tparams.Height, tparams.Width)
  /\ default_value_ \in (IF tparams = TestTiled THEN {5} ELSE Val)
  /\ tiles_ = FixedTiledGrid_ctor
  /\ data_ = <<>>
  /\ heap = HeapOf(kind, area(extents_))
  /\ touched = {}
  /\ last = Idle
  /\ nops = 0
  /\ origin_ = Zero
  /\ budget = MaxOps

(***************************************************************************)
(* Operations on G.                                                        *)
(***************************************************************************)
\* grid[p] = v
Write(p, v) ==
  /\ LET a == GridBase_subscript(Mem, p)
         m == Store(a.mem, a.ref, v)
     IN  /\ data_' = m.data
         /\ tiles_' = m.tiles
  /\ touched' = IF kind = "FixedTiledGrid" THEN touched \cup {TileIndexOf(p)} ELSE touched
  /\ last' = [op |-> "Write", pt |-> p, val |-> v]
  /\ nops' = nops + 1
  /\ UNCHANGED <<budget, origin_, heap, kind, tparams, extents_, default_value_>>

\* const auto value = const_grid[p]
ConstRead(p) ==
  /\ LET a == GridBase_subscript_const(Mem, p)
     IN  /\ data_' = a.mem.data
         /\ tiles_' = a.mem.tiles
         /\ last' = [op |-> "ConstRead", pt |-> p, val |-> Load(a.mem, a.ref)]
  /\ nops' = nops + 1
  /\ UNCHANGED <<budget, origin_, heap, kind, tparams, extents_, default_value_, touched>>

\* the tiles the mutable accesses of a range address
Touch(rng) ==
  IF kind = "FixedTiledGrid" THEN touched \cup {TileIndexOf(p) : p \in PtsOf(rng)} ELSE touched

\* grid.fill(v)
Fill(v) ==
  /\ LET m == GridBase_fill(Mem, GridBase_range, v)
     IN  /\ data_' = m.data
         /\ tiles_' = m.tiles
  /\ touched' = Touch(GridBase_range)
  /\ last' = [op |-> "Fill", val |-> v]
  /\ nops' = nops + 1
  /\ UNCHANGED <<budget, origin_, heap, kind, tparams, extents_, default_value_>>

\* for (const auto& v : grid) use(v);  with grid not const
RangeFor ==
  /\ LET r == ReadLoop(Mem, GridBase_range, TRUE, 1, <<>>)
     IN  /\ data_' = r.mem.data
         /\ tiles_' = r.mem.tiles
         /\ last' = [op |-> "RangeFor", seen |-> r.seen]
  /\ touched' = Touch(GridBase_range)
  /\ nops' = nops + 1
  /\ UNCHANGED <<budget, origin_, heap, kind, tparams, extents_, default_value_>>

\* the same loop over a const grid: const begin() / end(), as operator==,
\* operator!= and operator<< run it
ConstTraverse ==
  /\ LET r == ReadLoop(Mem, GridBase_range, FALSE, 1, <<>>)
     IN  /\ data_' = r.mem.data
         /\ tiles_' = r.mem.tiles
         /\ last' = [op |-> "ConstTraverse", seen |-> r.seen]
  /\ nops' = nops + 1
  /\ UNCHANGED <<budget, origin_, heap, kind, tparams, extents_, default_value_, touched>>

\* grid.view(...).fill(v)
ViewFill(view, v) ==
  /\ LET m == GridBase_fill(Mem, View_range(view), v)
     IN  /\ data_' = m.data
         /\ tiles_' = m.tiles
  /\ touched' = Touch(View_range(view))
  /\ last' = [op |-> "ViewFill", view |-> view, val |-> v]
  /\ nops' = nops + 1
  /\ UNCHANGED <<budget, origin_, heap, kind, tparams, extents_, default_value_>>

\* grid.view(...) = FixedGrid<int, h, w>{...}, the temporary holding cells
ViewAssignTemp(view, cells) ==
  /\ LET m == GridBase_assign(MemWithTemp(cells), View_range(view),
                              Temp_range(area(view.extents_)))
     IN  /\ data_' = m.data
         /\ tiles_' = m.tiles
  /\ touched' = Touch(View_range(view))
  /\ last' = [op |-> "ViewAssignTemp", view |-> view, cells |-> cells]
  /\ nops' = nops + 1
  /\ UNCHANGED <<budget, origin_, heap, kind, tparams, extents_, default_value_>>

\* grid.view(...)[q] = v
ViewWrite(view, q, v) ==
  /\ LET a == GridBase_subscript(Mem, View_access_impl(view, q))
         m == Store(a.mem, a.ref, v)
     IN  /\ data_' = m.data
         /\ tiles_' = m.tiles
  /\ touched' = IF kind = "FixedTiledGrid"
                  THEN touched \cup {TileIndexOf(View_access_impl(view, q))}
                  ELSE touched
  /\ last' = [op |-> "ViewWrite", view |-> view, pt |-> q, val |-> v]
  /\ nops' = nops + 1
  /\ UNCHANGED <<budget, origin_, heap, kind, tparams, extents_, default_value_>>

\* grid.view(...) = grid.view(...), two views of G of equal extents
ViewAssignView(view, src) ==
  /\ view.extents_ = src.extents_
  /\ LET m == GridBase_assign(Mem, View_range(view), View_range(src))
     IN  /\ data_' = m.data
         /\ tiles_' = m.tiles
  /\ touched' = Touch(View_range(view))
  /\ last' = [op |-> "ViewAssignView", view |-> view, src |-> src]
  /\ nops' = nops + 1
  /\ UNCHANGED <<budget, origin_, heap, kind, tparams, extents_, default_value_>>

\* grid = FixedGrid<int, h, w>{...} for a dense grid (FixedTiledGrid does
\* not bring GridBase::operator= into scope)
GridAssignTemp(cells) ==
  /\ kind # "FixedTiledGrid"
  /\ LET m == GridBase_assign(MemWithTemp(cells), GridBase_range,
                              Temp_range(area(extents_)))
     IN  /\ data_' = m.data
         /\ tiles_' = m.tiles
  /\ last' = [op |-> "GridAssignTemp", cells |-> cells]
  /\ nops' = nops + 1
  /\ UNCHANGED <<budget, origin_, heap, kind, tparams, extents_, default_value_, touched>>

\* the client drops the result of the last operation
Return ==
  /\ last # Idle
  /\ last' = Idle
  /\ UNCHANGED <<budget, origin_, heap, kind, tparams, extents_, data_, tiles_, default_value_,
               touched, nops>>

\* an operation starts when the client holds no pending result and has
\* operations left (CanCall)
Next ==
  \/ CanCall /\ \E p \in InPts, v \in InVals : Write(p, v)
  \/ CanCall /\ \E p \in InPts : ConstRead(p)
  \/ CanCall /\ LoopsRun /\ \E v \in InVals : Fill(v)
  \/ CanCall /\ LoopsRun /\ RangeFor
  \/ CanCall /\ LoopsRun /\ ConstTraverse
  \/ CanCall /\ \E w \in InViews({"FixedExtentsView"}), v \in InVals :
                   ViewAssignTemp(w, Cells(area(w.extents_), v))
  \/ Return

Spec == InitTiled /\ [][Next]_vars

(***************************************************************************)
(* A grid of any storage strategy and the views its client takes of it.    *)
(***************************************************************************)
Kinds == {"Grid", "MappedGrid", "FixedGrid", "FixedTiledGrid"}

\* the dense instantiation, e.g. FixedGrid<int, 3, 2>
DenseExtents == Pt(3, 2)

\* Grid(extents, value), FixedGrid(value) and MappedGrid(extents, memory)
\* with the memory holding a ramp; FixedTiledGrid(default_value)
InitView ==
  /\ kind \in Kinds
  /\ tparams = IF kind = "FixedTiledGrid" THEN SmallTiled ELSE NoTiled
  /\ extents_ = IF kind = "FixedTiledGrid" THEN Pt(tparams.Height, tparams.Width)
                                            ELSE DenseExtents
  /\ default_value_ \in (IF kind = "FixedTiledGrid" THEN Val ELSE {0})
  /\ tiles_ = FixedTiledGrid_ctor
  /\ data_ \in (IF kind = "FixedTiledGrid"
                  THEN {<<>>}
                  ELSE {Cells(area(extents_), 0), Ramp(area(extents_), 0)})
  /\ heap = HeapOf(kind, area(extents_))
  /\ touched = {}
  /\ last = Idle
  /\ nops = 0
  /\ origin_ = Zero
  /\ budget = MaxViewOps

NextView ==
  \/ CanCall /\ \E p \in InPts, v \in InVals : Write(p, v)
  \/ CanCall /\ \E w \in InViews(Forms), v \in InVals :
                   ViewWrite(w, Minus(w.extents_, Pt(1, 1)), v)
  \/ CanCall /\ \E w \in InViews(Forms), v \in InVals : ViewFill(w, v)
  \/ CanCall /\ \E w \in InViews(Forms), k \in Val :
                   ViewAssignTemp(w, Ramp(area(w.extents_), k))
  \/ CanCall /\ \E w \in InViews(Forms), o \in InOrigins :
                   /\ Inside(o, w.extents_)
                   /\ ViewAssignView(w, GridBase_view(OtherForm(w.form), o, w.extents_))
  \/ CanCall /\ \E k \in Val : GridAssignTemp(Ramp(area(extents_), k))
  \/ Return

SpecView == InitView /\ [][NextView]_vars

(***************************************************************************)
(* A dense grid of any extents.                                            *)
(***************************************************************************)
DenseKinds == {"Grid", "MappedGrid", "FixedGrid"}

DenseExts == {Pt(ex, ey) : ex \in 0..MaxExt, ey \in 0..MaxExt}

InitDense ==
  /\ kind \in DenseKinds
  /\ tparams = NoTiled
  /\ extents_ \in DenseExts
  /\ default_value_ = 0
  /\ tiles_ = FixedTiledGrid_ctor
  /\ data_ \in {Cells(area(extents_), v) : v \in Val} \cup {Ramp(area(extents_), 0)}
  /\ heap = HeapOf(kind, area(extents_))
  /\ touched = {}
  /\ last = Idle
  /\ nops = 0
  /\ origin_ = Zero
  /\ budget = MaxOps

NextDense ==
  \/ CanCall /\ \E p \in InPts, v \in InVals : Write(p, v)
  \/ CanCall /\ \E p \in InPts : ConstRead(p)
  \/ CanCall /\ \E v \in InVals : Fill(v)
  \/ CanCall /\ ConstTraverse
  \/ Return

SpecDense == InitDense /\ [][NextDense]_vars

(***************************************************************************)
(* Claims about FixedTiledGrid, checked under Spec.                        *)
(***************************************************************************)
AllPts == PointsOf(extents_)

AllTiles == PointsOf(TilesExtents)

\* the cells of the tile with index tp
CellsOfTile(tp) == {q \in AllPts : TileIndexOf(q) = tp}

\* C1: a write grid[p] = v into an empty tile T raises active() by exactly
\* one, makes p read v, leaves every other cell of T reading the default
\* and every cell outside T reading what it read before; a write into a
\* materialized tile leaves active() as it was.
C1_WriteMaterializesOneTile ==
  [][(last'.op = "Write") =>
       \A p \in {last'.pt}, v \in {last'.val}, m \in {Mem'} :
         LET T == TileIndexOf(p)
         IN  /\ ReadIn(m, p) = v
             /\ ~mask[T] =>
                   /\ active' = active + 1
                   /\ \A q \in CellsOfTile(T) \ {p} :
                         ReadIn(m, q) = default_value_
                   /\ \A q \in AllPts \ CellsOfTile(T) : ReadIn(m, q) = Read(q)
             /\ mask[T] => active' = active]_vars

\* C1 witness: the first operation wrote a value other than the default
\* into a tile that was empty
C1_Witness ==
  /\ last.op = "Write"
  /\ nops = 1
  /\ last.val # default_value_
  /\ active = 1
  /\ Read(last.pt) = last.val

\* the linear position of tile tp in tiles_ and of cell p in its tile, as
\* the claims state them
TileSlot(tp) == (TileRows * tp.y) + tp.x

CellSlot(p) ==
  (tparams.TileHeight * (p.y % tparams.TileWidth)) + (p.x % tparams.TileHeight)

ConstOps == {"ConstRead", "ConstTraverse"}

\* C2: a read through the const access path returns the stored value when
\* the tile of p is materialized and default_value_ otherwise, and changes
\* nothing: active(), mask() and every cell stay as they were.  A tile is
\* materialized only by a step that goes through the mutable access.
C2_ConstReadDoesNotAllocate ==
  [][
     /\ (last'.op = "ConstRead") =>
          \A p \in {last'.pt} :
            /\ last'.val = IF mask[TileIndexOf(p)]
                             THEN tiles_[TileSlot(TileIndexOf(p))].data[1][CellSlot(p)]
                             ELSE default_value_
            /\ active' = active
            /\ mask' = mask
            /\ tiles_' = tiles_
     /\ (mask' # mask) => (touched' # touched /\ last'.op \notin ConstOps)
    ]_vars

\* C2 witness: a const read of a cell of an empty tile, after another tile
\* was materialized, returned the default and left one tile active
C2_Witness ==
  /\ last.op = "ConstRead"
  /\ nops = 2
  /\ active = 1
  /\ ~mask[TileIndexOf(last.pt)]
  /\ last.val = default_value_

\* C3: a whole-grid traversal that only reads the dereferenced cells does
\* not allocate, through const begin()/end() or through a range-for over a
\* non-const grid: every visited cell reads its value and active() and
\* mask() are unchanged.
C3_TraversalDoesNotAllocate ==
  [][(last'.op \in {"ConstTraverse", "RangeFor"}) =>
       /\ active' = active
       /\ mask' = mask
       /\ \A seen \in {last'.seen} :
            /\ Len(seen) = area(extents_)
            /\ \A i \in 1..Len(seen) : seen[i] = Read(FixedTiledGrid_range[i].pt)]_vars

\* C4: materialization is monotonic: no operation turns a materialized
\* tile back into an empty one, so active() never decreases, also when
\* every cell of a tile is written back to the default.
C4_MaterializationMonotonic ==
  [][
     /\ \A tp \in AllTiles : mask[tp] => mask'[tp]
     /\ active' >= active
    ]_vars

\* C4 witness: after a tile was written with another value, a fill wrote
\* the default back into every cell and every tile is still materialized
C4_Witness ==
  /\ last.op = "Fill"
  /\ last.val = default_value_
  /\ nops = 2
  /\ active = TileCount
  /\ \A q \in AllPts : Read(q) = default_value_

\* C5: mask() holds true exactly at the indices {p.x / TileHeight,
\* p.y / TileWidth} of the cells p addressed by a mutable access, and
\* active() is the number of true entries.  In the 20 x 20 grid of 5 x 5
\* tiles with default 5, after 6 is written at {5,5} and 9 at {18,19},
\* mask() is true exactly at {1,1} and {3,3}, active() is 2, and those
\* cells read 6 and 9 while the cell {0,0} reads 5.
C5_MaskMarksTouchedTiles ==
  /\ \A tp \in AllTiles : mask[tp] <=> (tp \in touched)
  /\ active = Cardinality({tp \in AllTiles : mask[tp]})
  /\ (/\ tparams = TestTiled
      /\ nops = 2
      /\ last = [op |-> "Write", pt |-> Pt(18, 19), val |-> 9]
      /\ Read(Pt(5, 5)) = 6)
       => /\ {tp \in AllTiles : mask[tp]} = {Pt(1, 1), Pt(3, 3)}
          /\ active = 2
          /\ Read(Pt(18, 19)) = 9
          /\ Read(Pt(0, 0)) = 5

\* C5 witness: the two writes of test Assign were made
C5_Witness ==
  /\ tparams = TestTiled
  /\ nops = 2
  /\ last = [op |-> "Write", pt |-> Pt(18, 19), val |-> 9]
  /\ Read(Pt(5, 5)) = 6
  /\ touched = {Pt(1, 1), Pt(3, 3)}

\* C6: a freshly constructed FixedTiledGrid with default d has no
\* materialized tile: before any mutable access active() = 0, mask() is
\* false everywhere and every in-range cell reads d.
C6_FreshGridIsEmpty ==
  (touched = {}) =>
    /\ active = 0
    /\ \A tp \in AllTiles : ~mask[tp]
    /\ \A q \in AllPts : Read(q) = default_value_

\* C6 witness: the first operation on the fresh grid was a const read, and
\* it returned the default
C6_Witness ==
  /\ last.op = "ConstRead"
  /\ nops = 1
  /\ touched = {}
  /\ active = 0
  /\ last.val = default_value_

(***************************************************************************)
(* Claims about views and whole-grid operations, checked under SpecView,   *)
(* and about dense storage, checked under SpecDense.                       *)
(***************************************************************************)
\* the value V[q] yields, read through the view, when the storage is mem
ViewGet(mem, view, q) ==
  LET a == GridBase_subscript(mem, View_access_impl(view, q)) IN Load(a.mem, a.ref)

\* the parent cells [O, O + Ext) of a view
Rect(view) == {Plus(view.origin_, q) : q \in PointsOf(view.extents_)}

\* the position of the view-relative point q in a grid of the view's extents
SlotIn(view, q) == (view.extents_.x * q.y) + q.x

\* C7: for a grid G of any storage strategy and a view V = G.view(O, Ext)
\* inside G, of any of the three view classes, V[q] and G[O + q] are the
\* same cell: a write through V[q] is read back through V[q] and through
\* G[O + q] and changes no other cell of G, and a write through G[p] is
\* read back through every V[q] with O + q = p.
C7_ViewTransparency ==
  [][
     /\ (last'.op = "ViewWrite") =>
          \A w \in {last'.view}, q \in {last'.pt}, v \in {last'.val}, m \in {Mem'} :
            LET p == Plus(w.origin_, q)
            IN  /\ ReadIn(m, p) = v
                /\ ViewGet(m, w, q) = v
                /\ \A r \in AllPts \ {p} : ReadIn(m, r) = Read(r)
     /\ (last'.op = "Write") =>
          \A p \in {last'.pt}, v \in {last'.val}, m \in {Mem'} :
            /\ ReadIn(m, p) = v
            /\ \A u \in InViews(Forms) :
                 within(u.extents_, Minus(p, u.origin_)) =>
                   (ViewGet(m, u, Minus(p, u.origin_)) = v)
    ]_vars

\* C7 witness: a write through a cell other than the first of a view whose
\* origin is not the origin of G is read back through G
C7_Witness ==
  /\ last.op = "ViewWrite"
  /\ last.view.form = "View"
  /\ last.view.origin_ = Pt(1, 1)
  /\ last.pt = Pt(1, 0)
  /\ last.val = 1
  /\ Read(Pt(2, 1)) = 1
  /\ Read(Pt(1, 0)) = 0

\* the linear index of a point of a dense G
LinearIndexOf(p) ==
  IF kind = "FixedGrid" THEN ContainerStorageBase_toLinearIndex(extents_, p)
                        ELSE RawStorageBase_toLinearIndex(extents_, p)

\* C8: in a dense grid of non-negative extents E, after v is written at a
\* point p of [0, E) reading p yields v and every other point of [0, E)
\* reads what it read before; the linear indices of the points of [0, E)
\* are distinct and lie in [0, area(E)).
C8_DenseWriteReadBack ==
  [][
     /\ (last'.op = "Write") =>
          \A p \in {last'.pt}, v \in {last'.val}, m \in {Mem'} :
            /\ ReadIn(m, p) = v
            /\ \A q \in AllPts \ {p} : ReadIn(m, q) = Read(q)
     /\ \A p \in AllPts :
          /\ LinearIndexOf(p) \in 0..(area(extents_) - 1)
          /\ \A q \in AllPts \ {p} : LinearIndexOf(q) # LinearIndexOf(p)
    ]_vars

\* C8 witness: a write at the last point of a grid with unequal sides
C8_Witness ==
  /\ last.op = "Write"
  /\ kind = "Grid"
  /\ extents_ = Pt(1, 2)
  /\ last.pt = Pt(0, 1)
  /\ last.val = 1
  /\ Read(Pt(0, 1)) = 1
  /\ Read(Pt(0, 0)) = 0

\* after D = S with S a temporary grid holding cells and D the range rng
\* (a view of G, or G), m the storage of G: D[p] == S[p] at every point
\* and D == S
AssignedFromTemp(m, rng, cells) ==
  /\ \A i \in DOMAIN rng :
       LET d == Deref_const(m, rng[i]) IN Load(d.mem, d.ref) = cells[i - 1]
  /\ GridBase_eq([m EXCEPT !.temp = cells], rng, Temp_range(Len(rng)))

\* after D = S for two views of G, m the storage of G: D[q] == S[q] at
\* every point, D == S, and S reads as it did before
AssignedFromView(m, view, src) ==
  /\ \A q \in PointsOf(view.extents_) :
       ReadIn(m, Plus(view.origin_, q)) = ReadIn(m, Plus(src.origin_, q))
  /\ GridBase_eq(m, View_range(view), View_range(src))
  /\ \A q \in PointsOf(src.extents_) :
       ReadIn(m, Plus(src.origin_, q)) = Read(Plus(src.origin_, q))

\* C9 as stated: after D = S with D and S of equal extents, of any storage
\* strategy or view, D[p] == S[p] at every p, D == S is true and S is
\* unchanged.
C9_AssignRoundTrip_AnyOperands ==
  [][
     /\ (last'.op = "ViewAssignTemp") =>
          \A w \in {last'.view}, cells \in {last'.cells}, m \in {Mem'} :
            AssignedFromTemp(m, View_range(w), cells)
     /\ (last'.op = "GridAssignTemp") =>
          \A cells \in {last'.cells}, m \in {Mem'} :
            AssignedFromTemp(m, GridBase_range, cells)
     /\ (last'.op = "ViewAssignView") =>
          \A w \in {last'.view}, src \in {last'.src}, m \in {Mem'} :
            AssignedFromView(m, w, src)
    ]_vars

\* C9 amended: the same, for a destination and a source that share no cell
\* or that are the same cells.
C9_AssignRoundTrip ==
  [][
     /\ (last'.op = "ViewAssignTemp") =>
          \A w \in {last'.view}, cells \in {last'.cells}, m \in {Mem'} :
            AssignedFromTemp(m, View_range(w), cells)
     /\ (last'.op = "GridAssignTemp") =>
          \A cells \in {last'.cells}, m \in {Mem'} :
            AssignedFromTemp(m, GridBase_range, cells)
     /\ (last'.op = "ViewAssignView") =>
          \A w \in {last'.view}, src \in {last'.src}, m \in {Mem'} :
            (Rect(w) \cap Rect(src) = {} \/ Rect(w) = Rect(src)) =>
              AssignedFromView(m, w, src)
    ]_vars

\* C9 witness: a view of a grid holding 0 1 0 / 1 0 1 was assigned from a
\* view of the same grid that shares no cell with it, and now holds the
\* source's cell
C9_Witness ==
  /\ last.op = "ViewAssignView"
  /\ kind = "FixedGrid"
  /\ last.view.origin_ = Pt(0, 0)
  /\ last.src.origin_ = Pt(1, 0)
  /\ last.view.extents_ = Pt(1, 2)
  /\ Read(Pt(0, 0)) = 1 /\ Read(Pt(1, 0)) = 1
  /\ Read(Pt(0, 1)) = 0 /\ Read(Pt(1, 1)) = 0
  /\ Read(Pt(2, 0)) = 0 /\ Read(Pt(2, 1)) = 1

\* C10: fill(v) through a view with origin O and extents Ext inside G, or an
\* assignment to the view from a grid of its extents, changes exactly the
\* cells [O, O + Ext) of G: each holds the written value afterwards and
\* every cell of G outside the rectangle keeps its value.
C10_ViewWriteFrame ==
  [][
     /\ (last'.op = "ViewFill") =>
          \A w \in {last'.view}, v \in {last'.val}, m \in {Mem'} :
            \A p \in AllPts :
              ReadIn(m, p) = IF p \in Rect(w) THEN v ELSE Read(p)
     /\ (last'.op = "ViewAssignTemp") =>
          \A w \in {last'.view}, cells \in {last'.cells}, m \in {Mem'} :
            \A p \in AllPts :
              ReadIn(m, p) = IF p \in Rect(w)
                               THEN cells[SlotIn(w, Minus(p, w.origin_))]
                               ELSE Read(p)
     /\ (last'.op = "ViewAssignView") =>
          \A w \in {last'.view}, m \in {Mem'} :
            \A p \in AllPts \ Rect(w) : ReadIn(m, p) = Read(p)
    ]_vars

\* C10 witness: a 2 x 2 view at {1, 0} of a grid of zeros was filled with 1
C10_Witness ==
  /\ last.op = "ViewFill"
  /\ last.view.origin_ = Pt(1, 0)
  /\ last.view.extents_ = Pt(2, 2)
  /\ last.val = 1
  /\ \A p \in AllPts : Read(p) = IF p.x >= 1 /\ p.x <= 2 THEN 1 ELSE 0

(***************************************************************************)
(* Whole-grid assignment, compound arithmetic and comparison between a     *)
(* view of G and another grid whose extents need not be those of the view. *)
(***************************************************************************)
\* the view-relative points an iterator takes from pt in n steps of
\* operator++, none of them compared with end()
RECURSIVE ViewSteps(_, _, _, _)
ViewSteps(pt, ext, n, visited) ==
  IF n = 0
    THEN visited
    ELSE ViewSteps(ViewIteratorBase_increment(pt, ext), ext, n - 1, Append(visited, pt))

\* this_itr = derived()->begin() of a view and the positions it takes while
\* other_itr runs over n cells
View_run(view, n) ==
  LET qs == ViewSteps(Zero, view.extents_, n, <<>>)
  IN  [i \in 1..n |-> PtPos(View_access_impl(view, qs[i]))]

\* operator+= and operator-=: for (other_itr = other.begin(); other_itr !=
\* other.end(); ++other_itr, ++this_itr) *this_itr += *other_itr;  (sign 1)
\* or *this_itr -= *other_itr;  (sign -1)
RECURSIVE CompoundLoop(_, _, _, _, _)
CompoundLoop(mem, this_rng, other_rng, sign, i) ==
  IF i > Len(other_rng)
    THEN mem
    ELSE LET o == Deref_const(mem, other_rng[i])
             v == Load(o.mem, o.ref)
             c == Deref(o.mem, this_rng[i])
         IN  CompoundLoop(Store(c.mem, c.ref, Load(c.mem, c.ref) + (sign * v)),
                          this_rng, other_rng, sign, i + 1)

\* mutant: a compound addition that adds the first cell of other to every cell
GridBase_add_first(mem, this_rng, other_rng) ==
  CompoundLoop(mem, this_rng, [i \in DOMAIN other_rng |-> other_rng[1]], 1, 1)

GridBase_add(mem, this_rng, other_rng) == CompoundLoop(mem, this_rng, other_rng, 1, 1)

GridBase_sub(mem, this_rng, other_rng) == CompoundLoop(mem, this_rng, other_rng, -1, 1)

\* the number of times the loop body of operator=, operator+= and
\* operator-= runs: once for each position of other.begin() .. other.end()
GridBase_pairs(other_rng) == Len(other_rng)

\* operator!= with the storage, the result and the number of cell pairs it
\* has compared: up to the first mismatch, or every position of
\* other.begin() .. other.end()
RECURSIVE CompareLoop(_, _, _, _)
CompareLoop(mem, this_rng, other_rng, i) ==
  IF i > Len(other_rng)
    THEN [mem |-> mem, ne |-> FALSE, pairs |-> i - 1]
    ELSE LET t == Deref_const(mem, this_rng[i])
             o == Deref_const(t.mem, other_rng[i])
         IN  IF Load(o.mem, t.ref) # Load(o.mem, o.ref)
               THEN [mem |-> o.mem, ne |-> TRUE, pairs |-> i]
               ELSE CompareLoop(o.mem, this_rng, other_rng, i + 1)

\* mutant: a comparison that looks at the first cell pair only
GridBase_compare_first(mem, this_rng, other_rng) ==
  CompareLoop(mem, SubSeq(this_rng, 1, 1), SubSeq(other_rng, 1, 1), 1)

GridBase_compare(mem, this_rng, other_rng) == CompareLoop(mem, this_rng, other_rng, 1)

\* the extents of the other operand, a temporary FixedGrid<int, h, w>
TempExts == {Pt(ex, ey) : ex \in 1..MaxViewExt, ey \in 1..MaxViewExt}

\* every position of the range addresses a cell of G
InParent(rng) == \A p \in PtsOf(rng) : within(extents_, p)

\* grid.view(...) = FixedGrid<int, h, w>{...}, the temporary of extents ext
ViewAssignGrid(view, ext, cells) ==
  /\ InParent(View_run(view, area(ext)))
  /\ LET m == GridBase_assign(MemWithTemp(cells), View_run(view, area(ext)),
                              Temp_range(area(ext)))
     IN  /\ data_' = m.data
         /\ tiles_' = m.tiles
  /\ touched' = Touch(View_run(view, area(ext)))
  /\ last' = [op |-> "ViewAssignGrid", view |-> view, ext |-> ext, cells |-> cells,
              pairs |-> GridBase_pairs(Temp_range(area(ext)))]
  /\ nops' = nops + 1
  /\ UNCHANGED <<budget, origin_, heap, kind, tparams, extents_, default_value_>>

\* grid.view(...) += FixedGrid<int, h, w>{...}
ViewAddGrid(view, ext, cells) ==
  /\ InParent(View_run(view, area(ext)))
  /\ LET m == GridBase_add(MemWithTemp(cells), View_run(view, area(ext)),
                           Temp_range(area(ext)))
     IN  /\ data_' = m.data
         /\ tiles_' = m.tiles
  /\ touched' = Touch(View_run(view, area(ext)))
  /\ last' = [op |-> "ViewAddGrid", view |-> view, ext |-> ext, cells |-> cells,
              pairs |-> GridBase_pairs(Temp_range(area(ext)))]
  /\ nops' = nops + 1
  /\ UNCHANGED <<budget, origin_, heap, kind, tparams, extents_, default_value_>>

\* grid.view(...) -= FixedGrid<int, h, w>{...}
ViewSubGrid(view, ext, cells) ==
  /\ InParent(View_run(view, area(ext)))
  /\ LET m == GridBase_sub(MemWithTemp(cells), View_run(view, area(ext)),
                           Temp_range(area(ext)))
     IN  /\ data_' = m.data
         /\ tiles_' = m.tiles
  /\ touched' = Touch(View_run(view, area(ext)))
  /\ last' = [op |-> "ViewSubGrid", view |-> view, ext |-> ext, cells |-> cells,
              pairs |-> GridBase_pairs(Temp_range(area(ext)))]
  /\ nops' = nops + 1
  /\ UNCHANGED <<budget, origin_, heap, kind, tparams, extents_, default_value_>>

\* grid.view(...) += grid.view(...), two views of G of equal extents
ViewAddView(view, src) ==
  /\ view.extents_ = src.extents_
  /\ LET m == GridBase_add(Mem, View_range(view), View_range(src))
     IN  /\ data_' = m.data
         /\ tiles_' = m.tiles
  /\ touched' = Touch(View_range(view))
  /\ last' = [op |-> "ViewAddView", view |-> view, src |-> src]
  /\ nops' = nops + 1
  /\ UNCHANGED <<budget, origin_, heap, kind, tparams, extents_, default_value_>>

\* grid.view(...) != FixedGrid<int, h, w>{...}, and operator== as its negation
ViewCompareGrid(view, ext, cells) ==
  /\ InParent(View_run(view, area(ext)))
  /\ LET r == GridBase_compare(MemWithTemp(cells), View_run(view, area(ext)),
                               Temp_range(area(ext)))
     IN  /\ data_' = r.mem.data
         /\ tiles_' = r.mem.tiles
         /\ last' = [op |-> "ViewCompareGrid", view |-> view, ext |-> ext, cells |-> cells,
                     ne |-> r.ne, eq |-> ~r.ne, pairs |-> r.pairs]
  /\ nops' = nops + 1
  /\ UNCHANGED <<budget, origin_, heap, kind, tparams, extents_, default_value_, touched>>

\* grid.view(...) != grid.view(...) between two views of G of equal extents,
\* and operator== as its negation
ViewCompareView(view, src) ==
  /\ view.extents_ = src.extents_
  /\ LET r == GridBase_compare(Mem, View_range(view), View_range(src))
     IN  /\ data_' = r.mem.data
         /\ tiles_' = r.mem.tiles
         /\ last' = [op |-> "ViewCompareView", view |-> view, src |-> src,
                     ne |-> r.ne, eq |-> ~r.ne, pairs |-> r.pairs]
  /\ nops' = nops + 1
  /\ UNCHANGED <<budget, origin_, heap, kind, tparams, extents_, default_value_, touched>>

\* grid != FixedGrid<int, H, W>{...} of G's extents, and operator== as its
\* negation
GridCompareGrid(cells) ==
  /\ LET r == GridBase_compare(MemWithTemp(cells), GridBase_range,
                               Temp_range(area(extents_)))
     IN  /\ data_' = r.mem.data
         /\ tiles_' = r.mem.tiles
         /\ last' = [op |-> "GridCompareGrid", cells |-> cells,
                     ne |-> r.ne, eq |-> ~r.ne, pairs |-> r.pairs]
  /\ nops' = nops + 1
  /\ UNCHANGED <<budget, origin_, heap, kind, tparams, extents_, default_value_, touched>>

\* the cells of the other operand: uniform, or a ramp
TempCells(n) == {Cells(n, v) : v \in Val} \cup {Ramp(n, k) : k \in Val}

\* the operands have equal extents
NextArith ==
  \/ CanCall /\ \E p \in InPts, v \in InVals : Write(p, v)
  \/ CanCall /\ \E w \in InViews(Forms), k \in Val :
                   ViewAddGrid(w, w.extents_, Ramp(area(w.extents_), k))
  \/ CanCall /\ \E w \in InViews({"View"}), o \in InOrigins :
                   /\ Inside(o, w.extents_)
                   /\ ViewAddView(w, GridBase_view(OtherForm(w.form), o, w.extents_))
  \/ CanCall /\ \E w \in InViews(Forms) :
                   \E c \in TempCells(area(w.extents_)) : ViewCompareGrid(w, w.extents_, c)
  \/ CanCall /\ \E w \in InViews({"FixedExtentsView"}), o \in InOrigins :
                   /\ Inside(o, w.extents_)
                   /\ ViewCompareView(w, GridBase_view(OtherForm(w.form), o, w.extents_))
  \/ CanCall /\ \E c \in TempCells(area(extents_)) : GridCompareGrid(c)
  \/ Return

SpecArith == InitView /\ [][NextArith]_vars

\* the other operand has any extents
NextUnequal ==
  \/ CanCall /\ \E p \in InPts, v \in InVals : Write(p, v)
  \/ CanCall /\ \E w \in InViews({"View"}), e \in TempExts, k \in Val :
                   ViewAssignGrid(w, e, Ramp(area(e), k))
  \/ CanCall /\ \E w \in InViews({"FixedExtentsView"}), e \in TempExts, k \in Val :
                   ViewAddGrid(w, e, Ramp(area(e), k))
  \/ CanCall /\ \E w \in InViews({"FixedOriginExtentsView"}), e \in TempExts, k \in Val :
                   ViewSubGrid(w, e, Ramp(area(e), k))
  \/ CanCall /\ \E w \in InViews({"View"}), e \in TempExts :
                   \E c \in TempCells(area(e)) : ViewCompareGrid(w, e, c)
  \/ Return

SpecUnequal == InitView /\ [][NextUnequal]_vars

(***************************************************************************)
(* Claims about operands of unequal extents, checked under SpecUnequal.    *)
(***************************************************************************)
Min(a, b) == IF a < b THEN a ELSE b

\* C11: with unequal extents, =, += and -= and the cell-wise comparison
\* stop at the end of the shorter operand's iteration: exactly
\* min(area(this), area(other)) cell pairs are processed (by a comparison
\* that finds no mismatch; one that finds a mismatch stops earlier) and no
\* cell past the last cell of `this` is read or written, so every cell of
\* the parent outside the view keeps its value.
C11_StopsAtShorterOperand ==
  [][
     /\ (last'.op \in {"ViewAssignGrid", "ViewAddGrid", "ViewSubGrid"}) =>
          \A w \in {last'.view}, e \in {last'.ext}, n \in {last'.pairs}, m \in {Mem'} :
            /\ n = Min(area(w.extents_), area(e))
            /\ \A p \in AllPts :
                 ~within(w.extents_, Minus(p, w.origin_)) => (ReadIn(m, p) = Read(p))
     /\ (last'.op = "ViewCompareGrid") =>
          \A w \in {last'.view}, e \in {last'.ext}, n \in {last'.pairs}, ne \in {last'.ne} :
            /\ n <= Min(area(w.extents_), area(e))
            /\ ~ne => (n = Min(area(w.extents_), area(e)))
    ]_vars

(***************************************************************************)
(* Claims about comparison and compound addition of operands of equal      *)
(* extents, checked under SpecArith.                                       *)
(***************************************************************************)
\* C12: for operands A and B of equal extents, of any storage strategy or
\* view, A == B is true exactly when A[p] == B[p] at every point p of
\* [0, extents); A != B is the negation of A == B; the comparison changes no
\* cell of either operand and materializes no tile.
C12_EqualityIsCellwise ==
  [][
     /\ (last'.op = "ViewCompareGrid") =>
          \A w \in {last'.view}, cells \in {last'.cells}, eq \in {last'.eq} :
            eq = (\A q \in PointsOf(w.extents_) :
                    Read(Plus(w.origin_, q)) = cells[SlotIn(w, q)])
     /\ (last'.op = "ViewCompareView") =>
          \A w \in {last'.view}, src \in {last'.src}, eq \in {last'.eq} :
            eq = (\A q \in PointsOf(w.extents_) :
                    Read(Plus(w.origin_, q)) = Read(Plus(src.origin_, q)))
     /\ (last'.op = "GridCompareGrid") =>
          \A cells \in {last'.cells}, eq \in {last'.eq} :
            eq = (\A p \in AllPts : Read(p) = cells[(extents_.x * p.y) + p.x])
     /\ (last'.op \in {"ViewCompareGrid", "ViewCompareView", "GridCompareGrid"}) =>
          /\ last'.ne = ~last'.eq
          /\ data_' = data_
          /\ tiles_' = tiles_
    ]_vars

\* C12 witness: the view at {1, 0} of extents {2, 1} of a mapped grid over
\* memory holding 0 1 0 / 1 0 1 compared equal to a grid holding 1 0
C12_Witness ==
  /\ last.op = "ViewCompareGrid"
  /\ kind = "MappedGrid"
  /\ last.view.origin_ = Pt(1, 0)
  /\ last.view.extents_ = Pt(2, 1)
  /\ last.cells = Ramp(2, 1)
  /\ Read(Pt(1, 0)) = 1 /\ Read(Pt(2, 0)) = 0
  /\ last.eq /\ ~last.ne

\* after D += S for two views of G, m the storage of G: D[q] is what it was
\* plus S[q] at every point, S reads as it did before, and the cells of G
\* outside D keep their values
AddedFromView(m, view, src) ==
  /\ \A q \in PointsOf(view.extents_) :
       ReadIn(m, Plus(view.origin_, q)) =
         Read(Plus(view.origin_, q)) + ReadIn(m, Plus(src.origin_, q))
  /\ \A q \in PointsOf(src.extents_) :
       ReadIn(m, Plus(src.origin_, q)) = Read(Plus(src.origin_, q))
  /\ \A p \in AllPts :
       ~within(view.extents_, Minus(p, view.origin_)) => (ReadIn(m, p) = Read(p))

\* after D += S with S a temporary grid holding cells
AddedFromTemp(m, view, cells) ==
  \A p \in AllPts :
    ReadIn(m, p) = IF within(view.extents_, Minus(p, view.origin_))
                     THEN Read(p) + cells[SlotIn(view, Minus(p, view.origin_))]
                     ELSE Read(p)

\* C19 as stated: after D += S for a destination D and a source S of equal
\* extents, D[p] == D_before[p] + S[p] at every point p, S is unchanged, and
\* when D is a view every parent cell outside the view keeps its value.
C19_CompoundAdd_AnyOperands ==
  [][
     /\ (last'.op = "ViewAddGrid") =>
          \A w \in {last'.view}, cells \in {last'.cells}, m \in {Mem'} :
            AddedFromTemp(m, w, cells)
     /\ (last'.op = "ViewAddView") =>
          \A w \in {last'.view}, src \in {last'.src}, m \in {Mem'} :
            AddedFromView(m, w, src)
    ]_vars

\* C19 amended: the same, for a destination and a source that share no cell.
C19_CompoundAdd ==
  [][
     /\ (last'.op = "ViewAddGrid") =>
          \A w \in {last'.view}, cells \in {last'.cells}, m \in {Mem'} :
            AddedFromTemp(m, w, cells)
     /\ (last'.op = "ViewAddView") =>
          \A w \in {last'.view}, src \in {last'.src}, m \in {Mem'} :
            (Rect(w) \cap Rect(src) = {}) => AddedFromView(m, w, src)
    ]_vars

\* C19 witness: in a grid holding 0 1 0 / 1 0 1 the column at {1, 0} was
\* added to the column at {0, 0}, which now holds 1 1
C19_Witness ==
  /\ last.op = "ViewAddView"
  /\ kind = "FixedGrid"
  /\ last.view.origin_ = Pt(0, 0)
  /\ last.src.origin_ = Pt(1, 0)
  /\ last.view.extents_ = Pt(1, 2)
  /\ Read(Pt(0, 0)) = 1 /\ Read(Pt(0, 1)) = 1
  /\ Read(Pt(1, 0)) = 1 /\ Read(Pt(1, 1)) = 0
  /\ Read(Pt(2, 0)) = 0 /\ Read(Pt(2, 1)) = 1

(***************************************************************************)
(* Every FixedTiledGrid instantiation the static_asserts accept.           *)
(***************************************************************************)
\* static_assert(Height >= TileHeight), static_assert(Width >= TileWidth)
Accepted ==
  {t \in [Height : 1..MaxSide, Width : 1..MaxSide,
          TileHeight : 1..MaxSide, TileWidth : 1..MaxSide] :
     t.Height >= t.TileHeight /\ t.Width >= t.TileWidth}

\* the access to pt indexes inside tiles_ and inside the data of the tile:
\* the accesses a client can make with defined behaviour
Addressable(pt) ==
  LET tile_pt == Pt(IntDiv(pt.x, tparams.TileHeight), IntDiv(pt.y, tparams.TileWidth))
      t == ContainerStorageBase_toLinearIndex(TilesExtents, tile_pt)
  IN  /\ t \in DOMAIN tiles_
      /\ tiles_[t].data # <<>> =>
           ContainerStorageBase_toLinearIndex(TileGridExtents, Minus(pt, tiles_[t].origin))
             \in 0..(area(TileGridExtents) - 1)

InitTiling ==
  /\ kind = "FixedTiledGrid"
  /\ tparams \in Accepted
  /\ extents_ = Pt(tparams.Height, tparams.Width)
  /\ default_value_ = 0
  /\ tiles_ = FixedTiledGrid_ctor
  /\ data_ = <<>>
  /\ heap = NoHeap
  /\ touched = {}
  /\ last = Idle
  /\ nops = 0
  /\ origin_ = Zero
  /\ budget = MaxOps

NextTiling ==
  \/ CanCall /\ \E p \in InPts, v \in InVals : Addressable(p) /\ Write(p, v)
  \/ CanCall /\ \E p \in InPts : Addressable(p) /\ ConstRead(p)
  \/ Return

SpecTiling == InitTiling /\ [][NextTiling]_vars

\* C13: for every instantiation the class accepts, the TileRows x TileCols
\* tile grid covers the index space: the tile index {p.x / TileHeight,
\* p.y / TileWidth} of every point p within the extents lies inside
\* [0, TileRows) x [0, TileCols), so an access at p addresses the tile of
\* that index and a write at p is not seen through any other point.
C13_TilesCoverIndexSpace ==
  [][(last'.op = "Write") =>
       \A p \in {last'.pt}, m \in {Mem'} :
         /\ \A q \in AllPts : within(TilesExtents, TileIndexOf(q))
         /\ \A q \in AllPts \ {p} : ReadIn(m, q) = Read(q)]_vars

(***************************************************************************)
(* Construction, clear(), resize() and destruction of Grid, MappedGrid and *)
(* FixedGrid.  The initial state is the state a constructor leaves, with   *)
(* `last` holding the constructor call.                                    *)
(***************************************************************************)
\* Extents{20, 10} of TEST(Grid, InitSizeConstructor)
TestExtents == Pt(20, 10)

\* allocator_.allocate(n) followed by data_ = the result: for n = 0 the
\* result is unspecified, a null pointer or the address of an empty buffer
AllocateOutcomes(h, n) ==
  IF n = 0 THEN {Allocate(h, 0), [h EXCEPT !.at = 0]} ELSE {Allocate(h, n)}

\* mutant: a construct() that stops after the first row of cells
Grid_construct_row(ext, v) ==
  [i \in 0..(area(ext) - 1) |-> IF i < ext.x THEN v ELSE 0]

\* Grid::construct: every cell of begin() .. end() constructed from the
\* cell arguments (from nothing: value-initialized, 0 for int)
Grid_construct(ext, v) == Cells(area(ext), v)

\* mutant: a clear() that leaves the buffer allocated
Grid_clear_leaking(h) == h

\* Grid::clear
Grid_clear(h) == IF h.at = 0 THEN h ELSE Deallocate(h, area(extents_))

\* GridBase::empty
GridBase_empty == extents_ = Zero

\* BoundsBase::within of the bounds b = [origin, extents]
BoundsBase_within(b, pt) ==
  all_ge(pt, b.origin) /\ all_lt(pt, Plus(b.origin, b.extents))

\* the constructor calls: Grid(), Grid(extents, v) (Grid(extents) is v = 0),
\* FixedGrid<H, W>(v) and MappedGrid(extents, mem) over MaxCells cells
Ctors ==
  {[kind |-> "Grid", op |-> "Grid()", extents |-> Zero, val |-> 0,
    cells |-> <<>>, heaps |-> {NoHeap}]}
  \cup {[kind |-> "Grid", op |-> "Grid(extents, v)", extents |-> e, val |-> v,
         cells |-> Grid_construct(e, v), heaps |-> AllocateOutcomes(NoHeap, area(e))] :
          e \in DenseExts \cup {TestExtents}, v \in Val}
  \cup {[kind |-> "FixedGrid", op |-> "FixedGrid(v)", extents |-> e, val |-> v,
         cells |-> Cells(area(e), v), heaps |-> {NoHeap}] :
          e \in DenseExts \cup {TestExtents}, v \in Val}
  \cup {[kind |-> "MappedGrid", op |-> "MappedGrid(extents, mem)", extents |-> e, val |-> 0,
         cells |-> Ramp(MaxCells, 0), heaps |-> {HeapOf("MappedGrid", MaxCells)}] :
          e \in {d \in DenseExts : area(d) <= MaxCells}}

InitLife ==
  \E c \in Ctors :
    /\ kind = c.kind
    /\ tparams = NoTiled
    /\ extents_ = c.extents
    /\ default_value_ = 0
    /\ tiles_ = FixedTiledGrid_ctor
    /\ data_ = c.cells
    /\ heap \in c.heaps
    /\ touched = {}
    /\ last = [op |-> c.op, extents |-> c.extents, val |-> c.val]
    /\ nops = 0
    /\ origin_ = Zero
    /\ budget = MaxOps

\* grid.clear()
Clear ==
  /\ kind = "Grid"
  /\ heap' = Grid_clear(heap)
  /\ last' = [op |-> "clear"]
  /\ nops' = nops + 1
  /\ UNCHANGED <<budget, origin_, kind, tparams, extents_, data_, tiles_, default_value_, touched>>

\* grid.resize(extents, v): clear(); extents_ = extents; data_ =
\* allocator_.allocate(extents.area()); construct(v);  `cleared` is the
\* heap when clear() has returned and allocate() has not been called yet
Resize(ext, v) ==
  /\ kind = "Grid"
  /\ heap' \in AllocateOutcomes(Grid_clear(heap), area(ext))
  /\ extents_' = ext
  /\ data_' = Grid_construct(ext, v)
  /\ last' = [op |-> "resize(extents, v)", extents |-> ext, val |-> v,
              cleared |-> Grid_clear(heap)]
  /\ nops' = nops + 1
  /\ UNCHANGED <<budget, origin_, kind, tparams, tiles_, default_value_, touched>>

\* the grid goes out of scope: ~Grid() { clear(); }; MappedGrid and
\* FixedGrid have no destructor of their own
Destroy ==
  /\ heap' = [(IF kind = "Grid" THEN Grid_clear(heap) ELSE heap) EXCEPT !.gone = TRUE]
  /\ last' = [op |-> "destroy"]
  /\ nops' = nops + 1
  /\ UNCHANGED <<budget, origin_, kind, tparams, extents_, data_, tiles_, default_value_, touched>>

\* mutant: a MappedGrid::resize(extents) that takes a buffer of its own
MappedGrid_resize_owning(h, ext) == Allocate(h, area(ext))

\* MappedGrid::resize(extents): data_ and the memory stay as they are
MappedGrid_resize(h, ext) == h

\* mapped.resize(extents)
MappedResize(ext) ==
  /\ kind = "MappedGrid"
  /\ heap' = MappedGrid_resize(heap, ext)
  /\ extents_' = ext
  /\ last' = [op |-> "resize(extents)", extents |-> ext]
  /\ nops' = nops + 1
  /\ UNCHANGED <<budget, origin_, kind, tparams, data_, tiles_, default_value_, touched>>

\* mapped.resize(extents, v): extents_ = extents; std::fill(begin(), end(), v);
\* with the new cells inside the caller's memory
MappedResizeFill(ext, v) ==
  /\ kind = "MappedGrid"
  /\ area(ext) <= heap.bufs[heap.at].size
  /\ heap' = MappedGrid_resize(heap, ext)
  /\ extents_' = ext
  /\ data_' = [i \in DOMAIN data_ |-> IF i < area(ext) THEN v ELSE data_[i]]
  /\ last' = [op |-> "resize(extents, v)", extents |-> ext, val |-> v]
  /\ nops' = nops + 1
  /\ UNCHANGED <<budget, origin_, kind, tparams, tiles_, default_value_, touched>>

\* grid.within(p)
Within(p) ==
  /\ last' = [op |-> "within", pt |-> p, val |-> within(extents_, p)]
  /\ nops' = nops + 1
  /\ UNCHANGED <<budget, origin_, heap, kind, tparams, extents_, data_, tiles_, default_value_,
                 touched>>

\* the cells of G can be accessed: they lie in live memory that holds them
Usable ==
  \/ kind = "FixedGrid"
  \/ /\ heap.at # 0
     /\ heap.bufs[heap.at].freed = <<>>
     /\ area(extents_) <= heap.bufs[heap.at].size

\* the points the client of this specification addresses: the corners (it
\* runs no loop over the 200 cells of the 20 x 10 grid)
LifePts == {p \in {Zero, Minus(extents_, Pt(1, 1))} : within(extents_, p)}

\* the points within() is asked about: those of the tests, and the points
\* around the corners of G
WithinPts ==
  {Pt(1, 1), Pt(21, 11), Pt(21, 1), Pt(1, 11)}
  \cup {Pt(px, py) : px \in {-1, 0, extents_.x - 1, extents_.x},
                     py \in {-1, 0, extents_.y - 1, extents_.y}}

\* the object exists and no buffer has been released twice
Alive == ~heap.gone /\ \A i \in DOMAIN heap.bufs : Len(heap.bufs[i].freed) <= 1

NextLife ==
  \/ CanCall /\ Alive /\ Clear
  \/ CanCall /\ Alive /\ \E e \in DenseExts, v \in Val : Resize(e, v)
  \/ CanCall /\ Alive /\ Destroy
  \/ CanCall /\ Alive /\ \E e \in DenseExts : MappedResize(e)
  \/ CanCall /\ Alive /\ \E e \in DenseExts, v \in Val : MappedResizeFill(e, v)
  \/ CanCall /\ Alive /\ \E p \in WithinPts : Within(p)
  \/ CanCall /\ Alive /\ Usable /\ \E p \in LifePts, v \in Val : Write(p, v)
  \/ CanCall /\ Alive /\ Usable /\ \E p \in LifePts : ConstRead(p)
  \/ CanCall /\ Alive /\ Usable /\ extents_ # TestExtents /\ ConstTraverse
  \/ Return

SpecLife == InitLife /\ [][NextLife]_vars

(***************************************************************************)
(* Claims about construction, clear(), resize(), destruction and within(), *)
(* checked under SpecLife.                                                 *)
(***************************************************************************)
\* C14: over any sequence of construction, clear(), resize() and
\* destruction of a dense Grid every buffer obtained from the allocator is
\* deallocated exactly once: none is released twice, and none remains
\* allocated after the grid is destroyed.
C14_EveryBufferReleasedOnce ==
  \A i \in DOMAIN heap.bufs :
    (heap.bufs[i].by = "allocator") =>
      /\ Len(heap.bufs[i].freed) <= 1
      /\ heap.gone => (Len(heap.bufs[i].freed) = 1)

\* C15: no MappedGrid operation (construction, resize(E), resize(E, v),
\* indexed access, iteration, destruction) releases or re-points the
\* caller's memory, and resize(E) changes only extents(): the base pointer
\* and every memory cell are the same before and after.
C15_MappedMemoryUntouched ==
  [][(kind = "MappedGrid") =>
       /\ heap.bufs[heap.at].by = "caller"
       /\ heap'.at = heap.at
       /\ heap'.bufs = heap.bufs
       /\ heap'.bufs[heap'.at].freed = <<>>
       /\ (last'.op = "resize(extents)") =>
            /\ extents_' = last'.extents
            /\ data_' = data_]_vars

\* C15 witness: a mapped grid over memory holding 0 1 0 was resized beyond
\* that memory and the memory is as it was
C15_Witness ==
  /\ kind = "MappedGrid"
  /\ last.op = "resize(extents)"
  /\ extents_ = Pt(2, 2)
  /\ heap.at = 1
  /\ heap.bufs[1] = Buffer(MaxCells, "caller")
  /\ data_ = Ramp(MaxCells, 0)

\* C16: within(p) on a grid of extents E is true exactly when
\* 0 <= p.x < E.x and 0 <= p.y < E.y, which is what Bounds{{0,0}, E}.within(p)
\* yields; for extents {20,10} the points {21,1}, {1,11} and {21,11} are
\* rejected and {1,1} is accepted.
C16_WithinIsBothAxes ==
  [][(last'.op = "within") =>
       \A p \in {last'.pt}, r \in {last'.val} :
         /\ r = (0 <= p.x /\ p.x < extents_.x /\ 0 <= p.y /\ p.y < extents_.y)
         /\ r = BoundsBase_within([origin |-> Zero, extents |-> extents_], p)
         /\ (extents_ = TestExtents /\ p \in {Pt(21, 1), Pt(1, 11), Pt(21, 11)}) => ~r
         /\ (extents_ = TestExtents /\ p = Pt(1, 1)) => r]_vars

\* C16 witness: the grid of extents {20,10} was asked about {1,11}, a point
\* with only its y out of range, and rejected it
C16_Witness ==
  /\ last.op = "within"
  /\ kind = "Grid"
  /\ extents_ = TestExtents
  /\ last.pt = Pt(1, 11)
  /\ last.val = FALSE

\* C20: constructing a dense Grid with extents E and initial value v, or a
\* FixedGrid<H, W> with initial value v, yields extents() == E (resp.
\* {H, W}) and begin() .. end() visits exactly extents.area() cells, each
\* equal to v; a default-constructed Grid has extents {0,0} and is empty(),
\* a grid of extents {20,10} is not empty().
C20_ConstructedUniform ==
  (last.op \in {"Grid()", "Grid(extents, v)", "FixedGrid(v)"}) =>
    /\ extents_ = last.extents
    /\ Len(GridBase_range) = area(last.extents)
    /\ \A i \in DOMAIN GridBase_range :
         LET c == Deref_const(Mem, GridBase_range[i]) IN Load(c.mem, c.ref) = last.val
    /\ (last.op = "Grid()") => (extents_ = Zero /\ GridBase_empty)
    /\ (extents_ = TestExtents) => ~GridBase_empty

\* C20 witness: Grid<int>{Extents{20, 10}, 1} has just been constructed
C20_Witness ==
  /\ last = [op |-> "Grid(extents, v)", extents |-> TestExtents, val |-> 1]
  /\ nops = 0
  /\ origin_ = Zero
  /\ extents_ = TestExtents
  /\ ~GridBase_empty
  /\ Read(Pt(19, 9)) = 1


(***************************************************************************)
(* Bounds (include/bounds.h): an origin and extents, with the queries of   *)
(* BoundsBase.  The object is [origin_, extents_]; it holds no cells.      *)
(***************************************************************************)
\* origins of a Bounds run over -MaxOrigin..MaxOrigin on each axis
MaxOrigin == 1

\* Coordinates::abs: the magnitude of each component
abs(a) == Pt(IF a.x < 0 THEN 0 - a.x ELSE a.x, IF a.y < 0 THEN 0 - a.y ELSE a.y)

\* Coordinates::all_le: both components are less than or equal
all_le(a, b) == a.x <= b.x /\ a.y <= b.y

\* Bounds{origin, extents}
Bounds(origin, extents) == [origin |-> origin, extents |-> extents]

\* *this of a BoundsBase query
This == Bounds(origin_, extents_)

\* BoundsBase::overlaps
BoundsBase_overlaps(a, b) ==
  all_le(abs(Minus(a.origin, b.origin)), Plus(a.extents, b.extents))

BoundsOrigins == {Pt(ox, oy) : ox \in (0 - MaxOrigin)..MaxOrigin, oy \in (0 - MaxOrigin)..MaxOrigin}

\* the Bounds objects a client constructs: extents are not negative
BoundsSet == {Bounds(o, e) : o \in BoundsOrigins, e \in DenseExts}

\* the points in and around every Bounds of BoundsSet
BoundsPts ==
  {Pt(px, py) : px \in (0 - MaxOrigin - 1)..(MaxOrigin + MaxExt),
                py \in (0 - MaxOrigin - 1)..(MaxOrigin + MaxExt)}

InitBounds ==
  \E b \in BoundsSet :
    /\ kind = "Bounds"
    /\ tparams = NoTiled
    /\ origin_ = b.origin
    /\ extents_ = b.extents
    /\ default_value_ = 0
    /\ tiles_ = FixedTiledGrid_ctor
    /\ data_ = <<>>
    /\ heap = NoHeap
    /\ touched = {}
    /\ last = Idle
    /\ nops = 0
    /\ budget = MaxOps

\* bounds.overlaps(other)
Overlaps(other) ==
  /\ last' = [op |-> "overlaps", other |-> other, val |-> BoundsBase_overlaps(This, other)]
  /\ nops' = nops + 1
  /\ UNCHANGED <<budget, origin_, heap, kind, tparams, extents_, data_, tiles_, default_value_,
                 touched>>

\* bounds.within(pt)
BoundsWithin(p) ==
  /\ last' = [op |-> "within", pt |-> p, val |-> BoundsBase_within(This, p)]
  /\ nops' = nops + 1
  /\ UNCHANGED <<budget, origin_, heap, kind, tparams, extents_, data_, tiles_, default_value_,
                 touched>>

NextBounds ==
  \/ CanCall /\ \E b \in BoundsSet : Overlaps(b)
  \/ CanCall /\ \E p \in BoundsPts : BoundsWithin(p)
  \/ Return

SpecBounds == InitBounds /\ [][NextBounds]_vars

\* the two regions share a point: some p is within a and within b
SharePoint(a, b) == \E p \in BoundsPts : BoundsBase_within(a, p) /\ BoundsBase_within(b, p)

\* C17: for bounds a and b with non-negative extents, a.overlaps(b) is true
\* exactly when some point p is within a and within b.
C17_OverlapsIffSharedPoint ==
  (last.op = "overlaps") => (last.val <=> SharePoint(This, last.other))


(***************************************************************************)
(* A view of a view.  V1 = G.view(O1, E1) is itself a GridBase, so         *)
(* V2 = V1.view(O2, E2) holds V1 as its parent: V2[q] is itr_[q] of V2,    *)
(* that is V1[O2 + q], which is itr_[O2 + q] of V1, that is G[O1 + O2 + q].*)
(***************************************************************************)
\* mutant: the inner view resolves against G instead of against its parent
NestedView_access_impl_rooted(v1, v2, pt) == View_access_impl(v2, pt)

\* the point of G that V2[pt] addresses, V2 a view of the view V1
NestedView_access_impl(v1, v2, pt) ==
  View_access_impl(v1, View_access_impl(v2, pt))

\* V2 lies inside V1
InsideView(v1, origin, ext) ==
  all_ge(origin, Zero) /\ all_ge(v1.extents_, Plus(origin, ext))

\* the views the client takes of the view v1
NestedViews(v1) ==
  {GridBase_view(t[1], t[2], t[3]) :
     t \in {u \in Forms \X PointsOf(v1.extents_) \X ViewExts : InsideView(v1, u[2], u[3])}}

\* grid.view(...).view(...)[q] = v, with both views named objects
NestedViewWrite(v1, v2, q, v) ==
  /\ LET a == GridBase_subscript(Mem, NestedView_access_impl(v1, v2, q))
         m == Store(a.mem, a.ref, v)
     IN  /\ data_' = m.data
         /\ tiles_' = m.tiles
  /\ touched' = IF kind = "FixedTiledGrid"
                  THEN touched \cup {TileIndexOf(NestedView_access_impl(v1, v2, q))}
                  ELSE touched
  /\ last' = [op |-> "NestedViewWrite", parent |-> v1, view |-> v2, pt |-> q, val |-> v]
  /\ nops' = nops + 1
  /\ UNCHANGED <<budget, origin_, heap, kind, tparams, extents_, default_value_>>

NextNested ==
  \/ CanCall /\ \E p \in InPts, v \in InVals : Write(p, v)
  \/ CanCall /\ \E w \in InViews(Forms), v \in InVals :
                   ViewWrite(w, Minus(w.extents_, Pt(1, 1)), v)
  \/ CanCall /\ \E w \in InViews(Forms), v \in InVals :
                   \E u \in NestedViews(w) :
                     /\ u.form \in {"View", OtherForm(w.form)}
                     /\ NestedViewWrite(w, u, Minus(u.extents_, Pt(1, 1)), v)
  \/ Return

SpecNested == InitView /\ [][NextNested]_vars

\* the value V2[q] yields, read through V2, when the storage is mem
NestedGet(mem, v1, v2, q) ==
  LET a == GridBase_subscript(mem, NestedView_access_impl(v1, v2, q)) IN Load(a.mem, a.ref)

\* C18: for V1 = G.view(O1, E1) inside G and V2 = V1.view(O2, E2) inside
\* V1, V2[q], V1[O2 + q] and G[O1 + O2 + q] are the same cell: a write
\* through any of the three is read back through the other two (and a
\* write through V2 changes no other cell of G).
C18_ViewsCompose ==
  [][
     /\ (last'.op = "NestedViewWrite") =>
          \A w \in {last'.parent}, u \in {last'.view}, q \in {last'.pt}, v \in {last'.val},
             m \in {Mem'} :
            LET p == Plus(w.origin_, Plus(u.origin_, q))
            IN  /\ NestedGet(m, w, u, q) = v
                /\ ViewGet(m, w, Plus(u.origin_, q)) = v
                /\ ReadIn(m, p) = v
                /\ \A r \in AllPts \ {p} : ReadIn(m, r) = Read(r)
     /\ (last'.op = "ViewWrite") =>
          \A w \in {last'.view}, r \in {last'.pt}, v \in {last'.val}, m \in {Mem'} :
            /\ ReadIn(m, Plus(w.origin_, r)) = v
            /\ \A u \in NestedViews(w) :
                 within(u.extents_, Minus(r, u.origin_)) =>
                   (NestedGet(m, w, u, Minus(r, u.origin_)) = v)
     /\ (last'.op = "Write") =>
          \A p \in {last'.pt}, v \in {last'.val}, m \in {Mem'} :
            \A w \in InViews(Forms) :
              \A u \in NestedViews(w) :
                LET q == Minus(Minus(p, w.origin_), u.origin_)
                IN  within(u.extents_, q) =>
                      /\ NestedGet(m, w, u, q) = v
                      /\ ViewGet(m, w, Plus(u.origin_, q)) = v
    ]_vars

\* C18 witness: a write through V2[(0, 1)], V2 at (1, 0) in V1 and V1 at
\* (1, 0) in G, is read back at G[(2, 1)]
C18_Witness ==
  /\ last.op = "NestedViewWrite"
  /\ last.parent.origin_ = Pt(1, 0)
  /\ last.parent.extents_ = Pt(2, 2)
  /\ last.view.origin_ = Pt(1, 0)
  /\ last.view.extents_ = Pt(1, 2)
  /\ last.pt = Pt(0, 1)
  /\ last.val = 1
  /\ Read(Pt(2, 1)) = 1
  /\ Read(Pt(1, 1)) = 0


(***************************************************************************)
(* Writes to every cell of a grid or of a view, of every storage strategy: *)
(* fill and the assignment from a temporary grid of equal extents.         *)
(***************************************************************************)
NextFill ==
  \/ CanCall /\ \E p \in InPts, v \in InVals : Write(p, v)
  \/ CanCall /\ \E v \in InVals : Fill(v)
  \/ CanCall /\ \E w \in InViews(Forms), v \in InVals : ViewFill(w, v)
  \/ CanCall /\ \E w \in InViews(Forms), k \in Val :
                   ViewAssignTemp(w, Ramp(area(w.extents_), k))
  \/ Return

SpecFill == InitView /\ [][NextFill]_vars

\* the materialized tiles of the storage mem
ActiveIn(mem) == {t \in DOMAIN mem.tiles : mem.tiles[t].data # <<>>}

\* C21: for a grid or view and a value v, a second fill(v) right after
\* fill(v) changes nothing: every cell of the grid (the parent cells
\* outside a view included) and the set of materialized tiles are as the
\* first fill(v) left them.
C21_FillIdempotent ==
  [][
     /\ (last'.op = "Fill") =>
          \A v \in {last'.val}, m \in {Mem'} :
            LET again == GridBase_fill(m, GridBase_range, v)
            IN  /\ again = m
                /\ ActiveIn(again) = ActiveIn(m)
                /\ \A p \in AllPts : ReadIn(again, p) = ReadIn(m, p)
     /\ (last'.op = "ViewFill") =>
          \A w \in {last'.view}, v \in {last'.val}, m \in {Mem'} :
            LET again == GridBase_fill(m, View_range(w), v)
            IN  /\ again = m
                /\ ActiveIn(again) = ActiveIn(m)
                /\ \A p \in AllPts : ReadIn(again, p) = ReadIn(m, p)
    ]_vars

\* C21 witness: a view of a tiled grid was filled with a value other than
\* the default, leaving some tile empty and some parent cell outside the
\* view at the default
C21_Witness ==
  /\ last.op = "ViewFill"
  /\ kind = "FixedTiledGrid"
  /\ last.val # default_value_
  /\ active = 1
  /\ \E p \in AllPts : Read(p) = default_value_
  /\ \E p \in AllPts : Read(p) = last.val


(***************************************************************************)
(* A view iterator run from begin() by operator++ until it compares equal  *)
(* to end().  The state holds the view: its class in `kind`, its origin    *)
(* and extents in origin_ and extents_; `last` holds the running iterator: *)
(* its point pt_, the increments made and the points dereferenced.         *)
(***************************************************************************)
\* increments a run may make beyond the area of the largest view
MaxOverrun == 2

StepCap == (MaxExt * MaxExt) + MaxOverrun

\* ViewIterator::operator==(const ViewIteratorEnd&) and the fixed forms:
\* pt_.y == width_, width_ being extents.y
ViewIterator_is_end(pt, ext) == pt.y = ext.y

InitIter ==
  /\ kind \in Forms
  /\ tparams = NoTiled
  /\ origin_ \in PointsOf(DenseExtents)
  /\ extents_ \in DenseExts
  /\ default_value_ = 0
  /\ tiles_ = FixedTiledGrid_ctor
  /\ data_ = <<>>
  /\ heap = NoHeap
  /\ touched = {}
  /\ last = Idle
  /\ nops = 0
  /\ budget = MaxViewOps

\* auto itr = view.begin()
Begin ==
  /\ last' = [op |-> "iterate", pt |-> Zero, steps |-> 0, seen |-> <<>>]
  /\ nops' = nops + 1
  /\ UNCHANGED <<budget, origin_, heap, kind, tparams, extents_, data_, tiles_, default_value_,
                 touched>>

\* the loop step: itr != view.end(), use *itr, ++itr
Increment ==
  /\ last.op = "iterate"
  /\ ~ViewIterator_is_end(last.pt, extents_)
  /\ last.steps < StepCap
  /\ last' = [last EXCEPT !.pt = ViewIteratorBase_increment(last.pt, extents_),
                          !.steps = @ + 1,
                          !.seen = Append(@, last.pt)]
  /\ UNCHANGED <<budget, origin_, heap, kind, tparams, extents_, data_, tiles_, default_value_,
                 touched, nops>>

NextIter ==
  \/ CanCall /\ Begin
  \/ Increment
  \/ Return

SpecIter == InitIter /\ [][NextIter]_vars

\* the i-th point of [0, E) with x varying fastest
RowMajor(ext, i) ==
  IF ext.x = 0 THEN Pt(i - 1, 0) ELSE Pt((i - 1) % ext.x, (i - 1) \div ext.x)

\* C22: the iterator of a view with non-negative extents E equals end()
\* exactly when area(E) increments have been made, the extents with one
\* component 0 included (begin() is then end()), and up to there it has
\* visited the points of [0, E), each once, x varying fastest.
C22_IterationReachesEnd ==
  (last.op = "iterate") =>
    /\ ViewIterator_is_end(last.pt, extents_) <=> (last.steps = area(extents_))
    /\ \A i \in DOMAIN last.seen :
         /\ within(extents_, last.seen[i])
         /\ last.seen[i] = RowMajor(extents_, i)


(***************************************************************************)
(* Claims about Grid::resize, checked under SpecLife.                      *)
(***************************************************************************)
\* the buffers of the heap h that the allocator handed out and that have
\* not been passed to deallocate
LiveIn(h) == {i \in DOMAIN h.bufs : h.bufs[i].by = "allocator" /\ h.bufs[i].freed = <<>>}

\* C23: Grid::resize(E, v) first passes the old buffer to deallocate, with
\* the area of the old extents, which is the size of that buffer, and only
\* then sets the extents, allocates and constructs: no buffer is live when
\* allocate is called and at most one is live afterwards; afterwards
\* extents() is E, data_ addresses a buffer of area(E) cells and every cell
\* is v, whatever the cells held before.
C23_ResizeReleasesThenAllocates ==
  [][
     (kind = "Grid" /\ last'.op = "resize(extents, v)") =>
       \A e \in {last'.extents}, v \in {last'.val}, c \in {last'.cleared}, h \in {heap'} :
         /\ LiveIn(c) = {}
         /\ (heap.at # 0) =>
              LET old == c.bufs[heap.at]
              IN  /\ old.freed # <<>>
                  /\ old.freed[Len(old.freed)] = area(extents_)
                  /\ old.size = area(extents_)
         /\ Cardinality(LiveIn(h)) <= 1
         /\ extents_' = e
         /\ (h.at # 0) => (h.at \in LiveIn(h) /\ h.bufs[h.at].size = area(e))
         /\ (h.at = 0) => (area(e) = 0)
         /\ DOMAIN data_' = 0..(area(e) - 1)
         /\ \A i \in DOMAIN data_' : data_'[i] = v
    ]_vars

\* C23 witness: a grid of 2 x 2 cells holding 1 was resized to 1 x 2 cells
\* holding 0, and one buffer, of two cells, is live
C23_Witness ==
  /\ kind = "Grid"
  /\ last.op = "resize(extents, v)"
  /\ last.extents = Pt(1, 2)
  /\ last.val = 0
  /\ extents_ = Pt(1, 2)
  /\ \E i \in DOMAIN last.cleared.bufs :
       last.cleared.bufs[i].size = 4 /\ last.cleared.bufs[i].freed = <<4>>
  /\ LiveIn(heap) = {heap.at}
  /\ heap.bufs[heap.at].size = 2


\* the tile t and the view's region [O, O + Ext) share a cell
Intersects(tp, view) == CellsOfTile(tp) \cap Rect(view) # {}

\* C24: on a FixedTiledGrid with no materialized tile, a fill of, or an
\* assignment from a grid of equal extents to, a view with bounds B
\* materializes exactly the tiles that intersect B: mask()[t] is true iff
\* tile t intersects B.  Writing every cell of the grid through its own
\* iteration (for (auto& c : grid) c = v, the loop of fill) gives
\* active() = TileCount, whatever the value.
C24_WriteMaterializesIntersectingTiles ==
  [][
     (kind = "FixedTiledGrid" /\ active = 0) =>
       /\ (last'.op \in {"ViewFill", "ViewAssignTemp"}) =>
            \A w \in {last'.view} :
              /\ \A tp \in AllTiles : mask'[tp] <=> Intersects(tp, w)
              /\ active' = Cardinality({tp \in AllTiles : Intersects(tp, w)})
       /\ (last'.op = "Fill") =>
            /\ active' = TileCount
            /\ \A tp \in AllTiles : mask'[tp]
    ]_vars

\* C24 witness: the default value was written through a view that lies in
\* two of the four tiles of a grid with no materialized tile
C24_Witness ==
  /\ kind = "FixedTiledGrid"
  /\ nops = 1
  /\ last.op = "ViewFill"
  /\ last.val = default_value_
  /\ active = 2
  /\ TileCount = 4
  /\ \A tp \in AllTiles : mask[tp] <=> Intersects(tp, last.view)


(***************************************************************************)
(* A FixedTiledGrid and a dense twin.  tiles_ holds the tiled grid G with  *)
(* default d; data_ holds the cells of a FixedGrid of the same extents     *)
(* constructed from d.  Every operation of the client is made on both.     *)
(***************************************************************************)
InitTwin ==
  /\ kind = "FixedTiledGrid"
  /\ tparams = SmallTiled
  /\ extents_ = Pt(tparams.Height, tparams.Width)
  /\ default_value_ \in Val
  /\ tiles_ = FixedTiledGrid_ctor
  /\ data_ = Cells(area(extents_), default_value_)
  /\ heap = NoHeap
  /\ touched = {}
  /\ last = Idle
  /\ nops = 0
  /\ origin_ = Zero
  /\ budget = MaxOps

\* the value the twin holds at p when the storage is mem
TwinGet(mem, p) ==
  LET a == ContainerStorageBase_access_impl(mem, p) IN Load(a.mem, a.ref)

\* tiled[p] = v; dense[p] = v;
TwinStore(p, v) ==
  LET a == FixedTiledGrid_access_impl(Mem, p)
      m1 == Store(a.mem, a.ref, v)
      b == ContainerStorageBase_access_impl(m1, p)
      m2 == Store(b.mem, b.ref, v)
  IN  /\ data_' = m2.data
      /\ tiles_' = m2.tiles
      /\ touched' = touched \cup {TileIndexOf(p)}

\* use(tiled[p]); use(dense[p]);  through the mutable operator[]
TwinLoad(op, args, p) ==
  LET a == FixedTiledGrid_access_impl(Mem, p)
      b == ContainerStorageBase_access_impl(a.mem, p)
  IN  /\ data_' = b.mem.data
      /\ tiles_' = b.mem.tiles
      /\ touched' = touched \cup {TileIndexOf(p)}
      /\ last' = [op |-> op, at |-> args, val |-> Load(a.mem, a.ref),
                  twin |-> Load(b.mem, b.ref)]

TwinWrite(p, v) ==
  /\ TwinStore(p, v)
  /\ last' = [op |-> "Write", pt |-> p, val |-> v]
  /\ nops' = nops + 1
  /\ UNCHANGED <<budget, origin_, heap, kind, tparams, extents_, default_value_>>

\* tiled.view(...)[q] = v; dense.view(...)[q] = v;
TwinViewWrite(view, q, v) ==
  /\ TwinStore(View_access_impl(view, q), v)
  /\ last' = [op |-> "ViewWrite", view |-> view, pt |-> q, val |-> v]
  /\ nops' = nops + 1
  /\ UNCHANGED <<budget, origin_, heap, kind, tparams, extents_, default_value_>>

TwinRead(p) ==
  /\ TwinLoad("Read", <<p>>, p)
  /\ nops' = nops + 1
  /\ UNCHANGED <<budget, origin_, heap, kind, tparams, extents_, default_value_>>

\* use(tiled.view(...)[q]); use(dense.view(...)[q]);
TwinViewRead(view, q) ==
  /\ TwinLoad("ViewRead", <<view, q>>, View_access_impl(view, q))
  /\ nops' = nops + 1
  /\ UNCHANGED <<budget, origin_, heap, kind, tparams, extents_, default_value_>>

\* use(const_tiled[p]); use(const_dense[p]);
TwinConstRead(p) ==
  /\ LET a == FixedTiledGrid_access_impl_const(Mem, p)
         b == ContainerStorageBase_access_impl(a.mem, p)
     IN  last' = [op |-> "ConstRead", at |-> <<p>>, val |-> Load(a.mem, a.ref),
                  twin |-> Load(b.mem, b.ref)]
  /\ nops' = nops + 1
  /\ UNCHANGED <<budget, origin_, heap, kind, tparams, extents_, data_, tiles_, default_value_,
                 touched>>

NextTwin ==
  \/ CanCall /\ \E p \in InPts, v \in InVals : TwinWrite(p, v)
  \/ CanCall /\ \E w \in InViews(Forms), v \in InVals :
                   TwinViewWrite(w, Minus(w.extents_, Pt(1, 1)), v)
  \/ CanCall /\ \E p \in InPts : TwinRead(p)
  \/ CanCall /\ \E w \in InViews({"View"}) : TwinViewRead(w, Minus(w.extents_, Pt(1, 1)))
  \/ CanCall /\ \E p \in InPts : TwinConstRead(p)
  \/ Return

SpecTwin == InitTwin /\ [][NextTwin]_vars

\* the tile of the point p is empty when the storage is mem
EmptyTileAt(mem, p) == mem.tiles[TileSlot(TileIndexOf(p))].data = <<>>

\* C25: a FixedTiledGrid with default d and a dense grid of the same
\* extents constructed from d are given the same indexed writes and reads,
\* direct and through views.  After every step each cell reads the same in
\* both, every read returned the same value from both, and after a write
\* every cell of a tile that is still empty reads d.
C25_TiledRefinesDense ==
  [][
     \A m \in {Mem'} :
       /\ \A p \in AllPts : ReadIn(m, p) = TwinGet(m, p)
       /\ (last'.op \in {"Read", "ViewRead", "ConstRead"}) => (last'.val = last'.twin)
       /\ (last'.op \in {"Write", "ViewWrite"}) =>
            \A p \in AllPts : EmptyTileAt(m, p) => (ReadIn(m, p) = default_value_)
    ]_vars

\* C25 witness: after a write of a value other than the default, a read
\* through a view of another cell of the materialized tile returned the
\* default from both grids, while another tile is still empty
C25_Witness ==
  /\ last.op = "ViewRead"
  /\ last.val = default_value_
  /\ last.twin = default_value_
  /\ active = 1
  /\ \E p \in AllPts : Read(p) # default_value_ /\ TwinGet(Mem, p) = Read(p)


\* C26: a MappedGrid constructed over caller memory of C cells with
\* extents.area() <= C keeps extents().area() <= C in every state reached
\* by resize(E), resize(E, v), fill, assignment and indexed access, so the
\* offset of every point within the grid is below C.
C26_AreaWithinCapacity ==
  (kind = "MappedGrid") =>
    /\ area(extents_) <= heap.bufs[heap.at].size
    /\ \A p \in PointsOf(extents_) :
         RawStorageBase_toLinearIndex(extents_, p) < heap.bufs[heap.at].size


\* C27: grids of different extents never compare equal: when the extents
\* of the operands differ, A == B is false and A != B is true, whatever the
\* cells hold and whichever operand is on the left.
C27_DifferentExtentsUnequal ==
  (last.op = "ViewCompareGrid" /\ last.view.extents_ # last.ext) =>
    (last.ne /\ ~last.eq)


(***************************************************************************)
(* Views of a FixedTiledGrid across tile materialization.  A view holds    *)
(* the parent pointer, its origin and its extents (itr_) and no cell or    *)
(* tile pointer, and tiles_ is a member of the grid that materialization   *)
(* assigns in place: a view taken in an earlier state is the same value as *)
(* the view taken now.                                                     *)
(***************************************************************************)
NextTiledView ==
  \/ CanCall /\ \E p \in InPts, v \in InVals : Write(p, v)
  \/ CanCall /\ \E w \in InViews({"FixedOriginExtentsView"}), v \in InVals :
                   ViewWrite(w, Minus(w.extents_, Pt(1, 1)), v)
  \/ Return

SpecTiledView == InitTiled /\ [][NextTiledView]_vars

\* the cells the frame of a write is checked on
FramePts == IF tparams = TestTiled THEN InPts ELSE AllPts

\* C28: after every step of a FixedTiledGrid, whatever tiles the writes so
\* far have materialized (through G, through V or through another view),
\* every view V = G.view(O, Ext) and every q in [0, Ext) have V[q] read what
\* G[O + q] reads, and a write through V[q] is read back through G[O + q]
\* and changes no other cell.
C28_ViewValidAcrossMaterialization ==
  [][
     \A m \in {Mem'} :
       /\ \A w \in InViews({"FixedOriginExtentsView"}) :
            \A q \in PointsOf(w.extents_) :
              ViewGet(m, w, q) = ReadIn(m, Plus(w.origin_, q))
       /\ (last'.op = "ViewWrite") =>
            \A w \in {last'.view}, q \in {last'.pt}, v \in {last'.val} :
              /\ ReadIn(m, Plus(w.origin_, q)) = v
              /\ ViewGet(m, w, q) = v
              /\ \A r \in FramePts \ {Plus(w.origin_, q)} : ReadIn(m, r) = Read(r)
    ]_vars

\* C28 witness: a second write, through a view, materialized a second
\* tile and is read back through G
C28_Witness ==
  /\ nops = 2
  /\ active = 2
  /\ last.op = "ViewWrite"
  /\ last.view.origin_ # Zero
  /\ last.val # default_value_
  /\ Read(Plus(last.view.origin_, last.pt)) = last.val

====
